---------------------------- MODULE Spec2Model ----------------------------
(***************************************************************************)
(* The L3 NAT agent of quantum/agent/l3_agent.py: the router registry      *)
(* (router_info), the fullsync flag, the sync_sem semaphore and the three  *)
(* entry points that take it (routers_updated, router_deleted and the      *)
(* periodic _sync_routers_task), with process_router and the methods it    *)
(* calls computed as the code computes them.                               *)
(*                                                                         *)
(* Values.  Python strings that the code only compares are TLA+ strings.   *)
(* Strings the code concatenates, slices or formats (device names, CIDRs,  *)
(* iptables rules) are sequences of strings, so that concatenation is \o,  *)
(* slicing is SubSeq and "%s/%s" % (a, b) is <<a, b>>.  None is Null where *)
(* the value is a dict and "" where it is a string.                        *)
(***************************************************************************)
EXTENDS Integers, Sequences, FiniteSets, TLC

VARIABLES
    router_info,  \* L3NATAgent.router_info: router id -> RouterInfo
    fullsync,     \* L3NATAgent.fullsync
    sync_sem,     \* L3NATAgent.sync_sem: the semaphore's counter
    conf,         \* L3NATAgent.conf: the options read at start-up
    host,         \* the network state of the host the agent drives
    pc,           \* where each entry point's thread is
    local,        \* each thread's local variables and the calls it issued
    reconciled    \* history: the routers in the registry whose last
                  \* process_router returned without raising

vars == <<router_info, fullsync, sync_sem, conf, host, pc, local, reconciled>>

(***************************************************************************)
(* Bounds of the model.                                                    *)
(***************************************************************************)
\* the longest list of routers one routers_updated or one fetch delivers
MaxBatch == 2
\* an external call may raise: the MaxFault first ones of one step can
MaxFault == 2
\* the same in the specification of one router, where a fault can reach
\* every call of a gateway addition
MaxCallFault == 5

(***************************************************************************)
(* Program constants.                                                      *)
(***************************************************************************)
NS_PREFIX == <<"q", "r", "o", "u", "t", "e", "r", "-">>
INTERNAL_DEV_PREFIX == <<"q", "r", "-">>
EXTERNAL_DEV_PREFIX == <<"q", "g", "-">>
\* interface.LinuxInterfaceDriver.DEV_NAME_LEN
DEV_NAME_LEN == 14
\* the default of the metadata_port option
metadata_port == 9697
\* the default of the send_arp_for_ha option
send_arp_for_ha == 3
\* Semaphore(1)
SemaphoreInitial == 1

Null == [nil |-> TRUE]

(***************************************************************************)
(* The descriptors the controller sends.                                   *)
(***************************************************************************)
RouterIds == {"r1", "r2"}
ExtNet == "ext-net"
OtherNet == "other-net"

Port(id, net, mac, up, ips, cidr, gw) ==
    [id |-> id, network_id |-> net, mac_address |-> mac,
     admin_state_up |-> up,
     fixed_ips |-> [i \in 1..Len(ips) |-> [ip_address |-> ips[i]]],
     subnet |-> [cidr |-> cidr, gateway_ip |-> gw]]

P1 == Port(<<"p", "1">>, "net1", "mac-p1", TRUE, <<"10.0.0.1">>,
           <<"10.0.0.0", "24">>, "")
P1down == [P1 EXCEPT !.admin_state_up = FALSE]
P1noip == [P1 EXCEPT !.fixed_ips = <<>>]
P2 == Port(<<"p", "2">>, "net2", "mac-p2", TRUE, <<"10.0.1.1">>,
           <<"10.0.1.0", "24">>, "")
P2down == [P2 EXCEPT !.admin_state_up = FALSE]
P2noip == [P2 EXCEPT !.fixed_ips = <<>>]
P2twoips == [P2 EXCEPT !.fixed_ips =
                <<[ip_address |-> "10.0.1.1"], [ip_address |-> "10.0.1.2"]>>]
G1 == Port(<<"g", "1">>, ExtNet, "mac-g1", TRUE, <<"203.0.113.5">>,
           <<"203.0.113.0", "24">>, "203.0.113.1")
G2 == Port(<<"g", "2">>, ExtNet, "mac-g2", TRUE, <<"203.0.113.6">>,
           <<"203.0.113.0", "24">>, "203.0.113.1")
G3 == Port(<<"g", "3">>, OtherNet, "mac-g3", TRUE, <<"198.51.100.5">>,
           <<"198.51.100.0", "24">>, "")

FloatingIp(id, floating, fixed, port) ==
    [id |-> id, floating_ip_address |-> floating,
     fixed_ip_address |-> fixed, port_id |-> port]

F1a == FloatingIp("f1", "203.0.113.11", "10.0.0.11", "vm1")
F1b == FloatingIp("f1", "203.0.113.11", "10.0.0.12", "vm2")
F1free == FloatingIp("f1", "203.0.113.11", "", "")
F2a == FloatingIp("f2", "203.0.113.12", "10.0.0.21", "vm3")
F2b == FloatingIp("f2", "203.0.113.12", "10.0.0.22", "vm4")

\* A router as sync_routers returns it: external_gateway_info names the
\* network of gw_port.
Router(id, up, gw, ports, fips) ==
    [id |-> id, admin_state_up |-> up,
     external_gateway_info |->
        IF gw = Null THEN Null ELSE [network_id |-> gw.network_id],
     gw_port |-> gw, interfaces |-> ports, floatingips |-> fips]

RoutersOver(ids, ups, gws, portLists, fipLists) ==
    {Router(id, up, gw, ports, fips) :
        id \in ids, up \in ups, gw \in gws, ports \in portLists,
        fips \in fipLists}


(***************************************************************************)
(* Running a handler.  A handler's step is computed on a record m: the     *)
(* registry (info), the host, the calls issued so far, and whether an      *)
(* exception is propagating (exc).  Once exc is set every later statement  *)
(* is skipped, as a raise skips the rest of the Python block.  fuel picks  *)
(* the external call that fails: 0 for none, k for the k-th one.           *)
(***************************************************************************)
Start(info, h, fuel) ==
    [info |-> info, host |-> h, calls |-> <<>>, fuel |-> fuel, exc |-> FALSE]

CallRec(op, rid, a, b, ok) ==
    [op |-> op, rid |-> rid, a |-> a, b |-> b, ok |-> ok]

Raise(m) == [m EXCEPT !.exc = TRUE]

\* An in-memory operation or the entry of a method: it cannot fail.
Note(m, op, rid, a, b) ==
    IF m.exc THEN m
    ELSE [m EXCEPT !.calls = Append(@, CallRec(op, rid, a, b, TRUE))]

(***************************************************************************)
(* The host, as far as the agent reads it back: the devices of each        *)
(* namespace and the addresses on them.  What the agent only writes        *)
(* (namespaces, routes, metadata proxies) is in the calls it issues.       *)
(***************************************************************************)
EmptyHost == [devices |-> {}, addrs |-> {}]

Dev(ns, name) == [ns |-> ns, name |-> name]
Addr(ns, name, cidr) == [ns |-> ns, name |-> name, cidr |-> cidr]

device_exists(h, name, ns) == Dev(ns, name) \in h.devices

HostPlug(h, name, ns) == [h EXCEPT !.devices = @ \cup {Dev(ns, name)}]

HostUnplug(h, name, ns) ==
    [h EXCEPT !.devices = @ \ {Dev(ns, name)},
              !.addrs = {x \in @ : ~(x.ns = ns /\ x.name = name)}]

\* init_l3 leaves on the device exactly the addresses it is given
HostInitL3(h, name, cidrs, ns) ==
    [h EXCEPT !.addrs = {x \in @ : ~(x.ns = ns /\ x.name = name)}
                        \cup {Addr(ns, name, cidrs[i]) : i \in 1..Len(cidrs)}]

HostAddrList(h, name, ns) ==
    {x.cidr : x \in {y \in h.addrs : y.ns = ns /\ y.name = name}}

HostAddrAdd(h, name, cidr, ns) ==
    [h EXCEPT !.addrs = @ \cup {Addr(ns, name, cidr)}]

HostAddrDelete(h, name, cidr, ns) ==
    [h EXCEPT !.addrs = @ \ {Addr(ns, name, cidr)}]

HostDevices(h, ns) == {x.name : x \in {y \in h.devices : y.ns = ns}}

\* What an external call does to the host when it succeeds
NoEffect == [kind |-> "none", ns |-> <<>>, name |-> <<>>, cidr |-> <<>>]
PlugEffect(name, ns) == [NoEffect EXCEPT !.kind = "plug", !.name = name, !.ns = ns]
UnplugEffect(name, ns) == [NoEffect EXCEPT !.kind = "unplug", !.name = name, !.ns = ns]
InitL3Effect(name, cidr, ns) == [kind |-> "init_l3", ns |-> ns, name |-> name, cidr |-> cidr]
AddrAddEffect(name, cidr, ns) == [kind |-> "addr_add", ns |-> ns, name |-> name, cidr |-> cidr]
AddrDeleteEffect(name, cidr, ns) == [kind |-> "addr_delete", ns |-> ns, name |-> name, cidr |-> cidr]

HostApply(h, eff) ==
    CASE eff.kind = "plug" -> HostPlug(h, eff.name, eff.ns)
      [] eff.kind = "unplug" -> HostUnplug(h, eff.name, eff.ns)
      [] eff.kind = "init_l3" -> HostInitL3(h, eff.name, <<eff.cidr>>, eff.ns)
      [] eff.kind = "addr_add" -> HostAddrAdd(h, eff.name, eff.cidr, eff.ns)
      [] eff.kind = "addr_delete" -> HostAddrDelete(h, eff.name, eff.cidr, eff.ns)
      [] OTHER -> h

\* An external call that raises when it fails; eff is what it does to the
\* host when it succeeds.
Ext(m, op, rid, a, b, eff) ==
    IF m.exc THEN m
    ELSE IF m.fuel = 1
         THEN [m EXCEPT !.calls = Append(@, CallRec(op, rid, a, b, FALSE)),
                        !.fuel = 0, !.exc = TRUE]
         ELSE [m EXCEPT !.calls = Append(@, CallRec(op, rid, a, b, TRUE)),
                        !.fuel = IF @ > 1 THEN @ - 1 ELSE 0,
                        !.host = HostApply(@, eff)]

\* An external call whose failure the caller ignores: a try/except around
\* it, or check_exit_code=False.  A failed call leaves the host as it was.
ExtIgnored(m, op, rid, a, b, eff) ==
    IF m.exc THEN m
    ELSE IF m.fuel = 1
         THEN [m EXCEPT !.calls = Append(@, CallRec(op, rid, a, b, FALSE)),
                        !.fuel = 0]
         ELSE [m EXCEPT !.calls = Append(@, CallRec(op, rid, a, b, TRUE)),
                        !.fuel = IF @ > 1 THEN @ - 1 ELSE 0,
                        !.host = HostApply(@, eff)]

(***************************************************************************)
(* RouterInfo and the iptables manager it owns.                            *)
(***************************************************************************)
EmptyTables == [filter |-> {}, nat |-> {}]

RouterInfo(router_id, use_namespaces, router) ==
    [router_id |-> router_id, ex_gw_port |-> Null, internal_ports |-> <<>>,
     floating_ips |-> <<>>, use_namespaces |-> use_namespaces,
     router |-> router, iptables_manager |-> EmptyTables]

ns_name(ri) ==
    IF ri.use_namespaces THEN NS_PREFIX \o <<ri.router_id>> ELSE <<>>

add_rule(m, rid, table, rule) ==
    IF m.exc THEN m
    ELSE LET n == Note(m, "add_rule", rid, <<table>>, rule)
         IN  [n EXCEPT !.info[rid].iptables_manager[table] = @ \cup {rule}]

remove_rule(m, rid, table, rule) ==
    IF m.exc THEN m
    ELSE LET n == Note(m, "remove_rule", rid, <<table>>, rule)
         IN  [n EXCEPT !.info[rid].iptables_manager[table] = @ \ {rule}]

RECURSIVE add_rules(_, _, _, _)
add_rules(m, rid, table, rules) ==
    IF rules = <<>> THEN m
    ELSE add_rules(add_rule(m, rid, table, Head(rules)), rid, table,
                   Tail(rules))

RECURSIVE remove_rules(_, _, _, _)
remove_rules(m, rid, table, rules) ==
    IF rules = <<>> THEN m
    ELSE remove_rules(remove_rule(m, rid, table, Head(rules)), rid, table,
                      Tail(rules))

apply(m, rid) == Ext(m, "apply", rid, <<>>, <<>>, NoEffect)

(***************************************************************************)
(* The rule generators.  A rule (chain, text) is the sequence of the chain *)
(* and the pieces of the text.                                             *)
(***************************************************************************)
metadata_filter_rules ==
    << <<"INPUT", "-s 0.0.0.0/0 -d 127.0.0.1 -p tcp -m tcp --dport",
         ToString(metadata_port), "-j ACCEPT">> >>

metadata_nat_rules ==
    << <<"PREROUTING",
         "-s 0.0.0.0/0 -d 169.254.169.254/32 -p tcp -m tcp --dport 80 -j REDIRECT --to-port",
         ToString(metadata_port)>> >>

internal_network_nat_rules(ex_gw_ip, internal_cidr) ==
    << <<"snat", "-s">> \o internal_cidr \o <<"-j SNAT --to-source", ex_gw_ip>> >>

RECURSIVE internal_cidrs_nat_rules(_, _)
internal_cidrs_nat_rules(ex_gw_ip, internal_cidrs) ==
    IF internal_cidrs = <<>> THEN <<>>
    ELSE internal_network_nat_rules(ex_gw_ip, Head(internal_cidrs))
         \o internal_cidrs_nat_rules(ex_gw_ip, Tail(internal_cidrs))

\* external_gateway_nat_rules without its loop over internal_cidrs
external_gateway_nat_rules_no_snat(ex_gw_ip, internal_cidrs, interface_name) ==
    << <<"POSTROUTING", "! -i">> \o interface_name \o <<"! -o">>
       \o interface_name \o <<"-m conntrack ! --ctstate DNAT -j ACCEPT">> >>

external_gateway_nat_rules(ex_gw_ip, internal_cidrs, interface_name) ==
    << <<"POSTROUTING", "! -i">> \o interface_name \o <<"! -o">>
       \o interface_name \o <<"-m conntrack ! --ctstate DNAT -j ACCEPT">> >>
    \o internal_cidrs_nat_rules(ex_gw_ip, internal_cidrs)

floating_forward_rules(floating_ip, fixed_ip) ==
    << <<"PREROUTING", "-d", floating_ip, "-j DNAT --to", fixed_ip>>,
       <<"OUTPUT", "-d", floating_ip, "-j DNAT --to", fixed_ip>>,
       <<"float-snat", "-s", fixed_ip, "-j SNAT --to", floating_ip>> >>

(***************************************************************************)
(* Device names and subnet information.                                    *)
(***************************************************************************)
Truncate(s, n) == SubSeq(s, 1, IF Len(s) < n THEN Len(s) ELSE n)

get_internal_device_name(port_id) ==
    Truncate(INTERNAL_DEV_PREFIX \o port_id, DEV_NAME_LEN)

get_external_device_name(port_id) ==
    Truncate(EXTERNAL_DEV_PREFIX \o port_id, DEV_NAME_LEN)

\* netaddr.IPNetwork(cidr).prefixlen: the part after the slash
prefixlen(cidr) == cidr[2]

\* _set_subnet_info raises for a port with no fixed IP ...
set_subnet_info_raises(port) == port.fixed_ips = <<>>

\* _set_subnet_info taking the last fixed IP instead of ips[0]
set_subnet_info_last_ip(port) ==
    [id |-> port.id, network_id |-> port.network_id,
     mac_address |-> port.mac_address,
     admin_state_up |-> port.admin_state_up, fixed_ips |-> port.fixed_ips,
     subnet |-> port.subnet,
     ip_cidr |-> <<port.fixed_ips[Len(port.fixed_ips)].ip_address,
                   prefixlen(port.subnet.cidr)>>]

\* ... and otherwise stores ip_cidr in the port's dict
set_subnet_info(port) ==
    [id |-> port.id, network_id |-> port.network_id,
     mac_address |-> port.mac_address,
     admin_state_up |-> port.admin_state_up, fixed_ips |-> port.fixed_ips,
     subnet |-> port.subnet,
     ip_cidr |-> <<port.fixed_ips[1].ip_address, prefixlen(port.subnet.cidr)>>]

(***************************************************************************)
(* The methods process_router calls.  Each statement of a method is an     *)
(* operator on the record m, so a method is the composition of its         *)
(* statements in the order of the source.                                  *)
(***************************************************************************)
\* _send_gratuitous_arp_packet without its try/except
send_gratuitous_arp_packet_raising(m, rid, interface_name, ip_address) ==
    IF send_arp_for_ha > 0
    THEN Ext(m, "arping", rid, interface_name, <<ip_address>>, NoEffect)
    ELSE m

send_gratuitous_arp_packet(m, rid, interface_name, ip_address) ==
    IF send_arp_for_ha > 0
    THEN ExtIgnored(m, "arping", rid, interface_name, <<ip_address>>, NoEffect)
    ELSE m

\* if not ip_lib.device_exists(...): self.driver.plug(...)
plug_if_absent(m, rid, network_id, interface_name, mac_address, ns) ==
    IF m.exc \/ device_exists(m.host, interface_name, ns) THEN m
    ELSE Ext(m, "plug", rid, interface_name, <<network_id, mac_address>>,
             PlugEffect(interface_name, ns))

\* if ip_lib.device_exists(...): self.driver.unplug(...)
unplug_if_exists(m, rid, interface_name, ns) ==
    IF m.exc \/ ~device_exists(m.host, interface_name, ns) THEN m
    ELSE Ext(m, "unplug", rid, interface_name, <<>>,
             UnplugEffect(interface_name, ns))

init_l3(m, rid, interface_name, cidr, ns) ==
    Ext(m, "init_l3", rid, interface_name, cidr,
        InitL3Effect(interface_name, cidr, ns))

\* if ex_gw_port: add (or remove) the port's SNAT rule and apply
add_internal_nat(m, rid, ex_gw_port, internal_cidr) ==
    IF ex_gw_port = Null THEN m
    ELSE apply(add_rules(m, rid, "nat",
                   internal_network_nat_rules(
                       ex_gw_port.fixed_ips[1].ip_address, internal_cidr)),
               rid)

remove_internal_nat(m, rid, ex_gw_port, internal_cidr) ==
    IF ex_gw_port = Null THEN m
    ELSE apply(remove_rules(m, rid, "nat",
                   internal_network_nat_rules(
                       ex_gw_port.fixed_ips[1].ip_address, internal_cidr)),
               rid)

internal_network_added(m, rid, ex_gw_port, network_id, port_id, internal_cidr, mac_address) ==
    IF m.exc THEN m
    ELSE
    LET ns == ns_name(m.info[rid])
        interface_name == get_internal_device_name(port_id)
    IN  add_internal_nat(
          send_gratuitous_arp_packet(
            init_l3(
              plug_if_absent(
                Note(m, "internal_network_added", rid, port_id, internal_cidr),
                rid, network_id, interface_name, mac_address, ns),
              rid, interface_name, internal_cidr, ns),
            rid, interface_name, internal_cidr[1]),
          rid, ex_gw_port, internal_cidr)

internal_network_removed(m, rid, ex_gw_port, port_id, internal_cidr) ==
    IF m.exc THEN m
    ELSE
    LET ns == ns_name(m.info[rid])
        interface_name == get_internal_device_name(port_id)
    IN  remove_internal_nat(
          unplug_if_exists(
            Note(m, "internal_network_removed", rid, port_id, internal_cidr),
            rid, interface_name, ns),
          rid, ex_gw_port, internal_cidr)

\* if gw_ip: 'route add default gw', check_exit_code=False
route_add_default(m, rid, ns, gw_ip) ==
    IF gw_ip = "" THEN m
    ELSE ExtIgnored(m, "route_add_default", rid, ns, <<gw_ip>>, NoEffect)

external_gateway_added(m, rid, ex_gw_port, internal_cidrs) ==
    IF m.exc THEN m
    ELSE
    LET ns == ns_name(m.info[rid])
        interface_name == get_external_device_name(ex_gw_port.id)
        ex_gw_ip == ex_gw_port.fixed_ips[1].ip_address
    IN  apply(
          add_rules(
            route_add_default(
              send_gratuitous_arp_packet(
                init_l3(
                  plug_if_absent(
                    Note(m, "external_gateway_added", rid, ex_gw_port.id, <<>>),
                    rid, ex_gw_port.network_id, interface_name,
                    ex_gw_port.mac_address, ns),
                  rid, interface_name, ex_gw_port.ip_cidr, ns),
                rid, interface_name, ex_gw_port.ip_cidr[1]),
              rid, ns, ex_gw_port.subnet.gateway_ip),
            rid, "nat",
            external_gateway_nat_rules(ex_gw_ip, internal_cidrs,
                                       interface_name)),
          rid)

external_gateway_removed(m, rid, ex_gw_port, internal_cidrs) ==
    IF m.exc THEN m
    ELSE
    LET ns == ns_name(m.info[rid])
        interface_name == get_external_device_name(ex_gw_port.id)
        ex_gw_ip == ex_gw_port.fixed_ips[1].ip_address
    IN  apply(
          remove_rules(
            unplug_if_exists(
              Note(m, "external_gateway_removed", rid, ex_gw_port.id, <<>>),
              rid, interface_name, ns),
            rid, "nat",
            external_gateway_nat_rules(ex_gw_ip, internal_cidrs,
                                       interface_name)),
          rid)

\* if not ip_cidr in [addr['cidr'] for addr in device.addr.list()]:
\*     net.add(...); self._send_gratuitous_arp_packet(...)
addr_add_if_absent(m, rid, interface_name, ip_cidr, ns) ==
    IF m.exc \/ ip_cidr \in HostAddrList(m.host, interface_name, ns) THEN m
    ELSE send_gratuitous_arp_packet(
           Ext(m, "addr_add", rid, interface_name, ip_cidr,
               AddrAddEffect(interface_name, ip_cidr, ns)),
           rid, interface_name, ip_cidr[1])

floating_ip_added(m, rid, ex_gw_port, floating_ip, fixed_ip) ==
    IF m.exc THEN m
    ELSE IF ex_gw_port = Null       \* None['id']: TypeError
    THEN Raise(Note(m, "floating_ip_added", rid, <<floating_ip>>,
                    <<fixed_ip>>))
    ELSE
    LET ns == ns_name(m.info[rid])
        ip_cidr == <<floating_ip, "32">>
        interface_name == get_external_device_name(ex_gw_port.id)
    IN  apply(
          add_rules(
            addr_add_if_absent(
              Note(m, "floating_ip_added", rid, <<floating_ip>>, <<fixed_ip>>),
              rid, interface_name, ip_cidr, ns),
            rid, "nat", floating_forward_rules(floating_ip, fixed_ip)),
          rid)

floating_ip_removed(m, rid, ex_gw_port, floating_ip, fixed_ip) ==
    IF m.exc THEN m
    ELSE IF ex_gw_port = Null       \* None['id']: TypeError
    THEN Raise(Note(m, "floating_ip_removed", rid, <<floating_ip>>,
                    <<fixed_ip>>))
    ELSE
    LET ns == ns_name(m.info[rid])
        ip_cidr == <<floating_ip, "32">>
        interface_name == get_external_device_name(ex_gw_port.id)
    IN  apply(
          remove_rules(
            Ext(Note(m, "floating_ip_removed", rid, <<floating_ip>>,
                     <<fixed_ip>>),
                "addr_delete", rid, interface_name, ip_cidr,
                AddrDeleteEffect(interface_name, ip_cidr, ns)),
            rid, "nat", floating_forward_rules(floating_ip, fixed_ip)),
          rid)

(***************************************************************************)
(* process_router_floating_ips.                                            *)
(***************************************************************************)
SeqIds(s) == {s[i].id : i \in 1..Len(s)}

\* list.remove(x): the list without the first element equal to x
RECURSIVE ListRemove(_, _)
ListRemove(s, x) ==
    IF s = <<>> THEN <<>>
    ELSE IF Head(s) = x THEN Tail(s)
    ELSE <<Head(s)>> \o ListRemove(Tail(s), x)

\* id_to_fip_map: the last floating IP of each id that has a port
id_to_fip_map(floating_ips) ==
    LET withPort == SelectSeq(floating_ips, LAMBDA f : f.port_id # "")
    IN  [id \in SeqIds(withPort) |->
            LET last == CHOOSE i \in 1..Len(withPort) :
                            /\ withPort[i].id = id
                            /\ \A j \in (i+1)..Len(withPort) :
                                   withPort[j].id # id
            IN  withPort[last]]

\* ri.floating_ips.append(fip); ri.floating_ips.remove(fip)
fips_append(m, rid, fip) ==
    IF m.exc THEN m ELSE [m EXCEPT !.info[rid].floating_ips = Append(@, fip)]

fips_remove(m, rid, fip) ==
    IF m.exc THEN m
    ELSE [m EXCEPT !.info[rid].floating_ips = ListRemove(@, fip)]

\* lines 317-321 without "if fip['id'] not in existing_floating_ip_ids"
fips_add_body_unchecked(m, rid, ex_gw_port, fip, existing_floating_ip_ids) ==
    IF fip.port_id # ""
    THEN floating_ip_added(fips_append(m, rid, fip), rid, ex_gw_port,
                           fip.floating_ip_address, fip.fixed_ip_address)
    ELSE m

\* lines 317-321 for one floating IP of the descriptor
fips_add_body(m, rid, ex_gw_port, fip, existing_floating_ip_ids) ==
    IF fip.port_id # "" /\ fip.id \notin existing_floating_ip_ids
    THEN floating_ip_added(fips_append(m, rid, fip), rid, ex_gw_port,
                           fip.floating_ip_address, fip.fixed_ip_address)
    ELSE m

\* lines 315-324: the floating IPs of the descriptor, in order
RECURSIVE fips_add_loop(_, _, _, _, _)
fips_add_loop(m, rid, ex_gw_port, floating_ips, existing_floating_ip_ids) ==
    IF m.exc \/ floating_ips = <<>> THEN m
    ELSE fips_add_loop(
             fips_add_body(m, rid, ex_gw_port, Head(floating_ips),
                           existing_floating_ip_ids),
             rid, ex_gw_port, Tail(floating_ips), existing_floating_ip_ids)

\* lines 329-347 for one element fip of ri.floating_ips
fips_walk_body(m, rid, ri_ex_gw_port, fip, floating_ip_ids_to_remove, fip_map) ==
    IF fip.id \in floating_ip_ids_to_remove
    THEN floating_ip_removed(fips_remove(m, rid, fip), rid, ri_ex_gw_port,
                             fip.floating_ip_address, fip.fixed_ip_address)
    ELSE IF fip.id \notin DOMAIN fip_map THEN Raise(m)      \* KeyError
    ELSE LET new_fip == fip_map[fip.id]
             new_fixed_ip == new_fip.fixed_ip_address
             existing_fixed_ip == fip.fixed_ip_address
             floating_ip == fip.floating_ip_address
         IN  IF /\ new_fixed_ip # ""
                /\ existing_fixed_ip # ""
                /\ new_fixed_ip # existing_fixed_ip
             THEN fips_append(
                    fips_remove(
                      floating_ip_added(
                        floating_ip_removed(m, rid, ri_ex_gw_port, floating_ip,
                                            existing_fixed_ip),
                        rid, ri_ex_gw_port, floating_ip, new_fixed_ip),
                      rid, fip),
                    rid, new_fip)
             ELSE m

\* lines 328-347: "for fip in ri.floating_ips" reads the list by index, and
\* the body changes the list it walks
RECURSIVE fips_walk_loop(_, _, _, _, _)
fips_walk_loop(m, rid, i, floating_ip_ids_to_remove, fip_map) ==
    IF m.exc \/ i > Len(m.info[rid].floating_ips) THEN m
    ELSE fips_walk_loop(
             fips_walk_body(m, rid, m.info[rid].ex_gw_port,
                            m.info[rid].floating_ips[i],
                            floating_ip_ids_to_remove, fip_map),
             rid, i + 1, floating_ip_ids_to_remove, fip_map)

process_router_floating_ips(m, rid, ex_gw_port) ==
    IF m.exc THEN m
    ELSE LET ri == m.info[rid]
             floating_ips == ri.router.floatingips
             existing_floating_ip_ids == SeqIds(ri.floating_ips)
             cur_floating_ip_ids == SeqIds(floating_ips)
             floating_ip_ids_to_remove ==
                 existing_floating_ip_ids \ cur_floating_ip_ids
         IN  fips_walk_loop(
                 fips_add_loop(
                     Note(m, "process_router_floating_ips", rid, <<>>, <<>>),
                     rid, ex_gw_port, floating_ips,
                     existing_floating_ip_ids),
                 rid, 1, floating_ip_ids_to_remove,
                 id_to_fip_map(floating_ips))

(***************************************************************************)
(* process_router.                                                         *)
(***************************************************************************)
get_ex_gw_port(ri) == ri.router.gw_port

\* ri.internal_ports.append(p); ri.internal_ports.remove(p)
ports_append(m, rid, p) ==
    IF m.exc THEN m ELSE [m EXCEPT !.info[rid].internal_ports = Append(@, p)]

ports_remove(m, rid, p) ==
    IF m.exc THEN m
    ELSE [m EXCEPT !.info[rid].internal_ports = ListRemove(@, p)]

\* lines 283-287 for one port; p is the port after _set_subnet_info
new_ports_body(m, rid, ex_gw_port, p) ==
    internal_network_added(ports_append(m, rid, p), rid, ex_gw_port,
                           p.network_id, p.id, p.ip_cidr, p.mac_address)

\* lines 282-287
RECURSIVE new_ports_loop(_, _, _, _)
new_ports_loop(m, rid, ex_gw_port, new_ports) ==
    IF m.exc \/ new_ports = <<>> THEN m
    ELSE IF set_subnet_info_raises(Head(new_ports)) THEN Raise(m)
    ELSE new_ports_loop(
             new_ports_body(m, rid, ex_gw_port,
                            set_subnet_info(Head(new_ports))),
             rid, ex_gw_port, Tail(new_ports))

\* lines 289-292
RECURSIVE old_ports_loop(_, _, _, _)
old_ports_loop(m, rid, ex_gw_port, old_ports) ==
    IF m.exc \/ old_ports = <<>> THEN m
    ELSE old_ports_loop(
             internal_network_removed(
                 ports_remove(m, rid, Head(old_ports)), rid, ex_gw_port,
                 Head(old_ports).id, Head(old_ports).ip_cidr),
             rid, ex_gw_port, Tail(old_ports))

\* the first gateway branch without its "and not ri.ex_gw_port"
GatewayPresent(ex_gw_port, ri_ex_gw_port) == ex_gw_port # Null

\* lines 296-301: the gateway branch taken
GatewayAdded(ex_gw_port, ri_ex_gw_port) ==
    ex_gw_port # Null /\ ri_ex_gw_port = Null

GatewayRemoved(ex_gw_port, ri_ex_gw_port) ==
    ex_gw_port = Null /\ ri_ex_gw_port # Null

\* lines 274-280
\* current_port_ids without its "if p['admin_state_up']"
CurrentPortIdsAll(internal_ports) == SeqIds(internal_ports)

CurrentPortIds(internal_ports) ==
    SeqIds(SelectSeq(internal_ports, LAMBDA p : p.admin_state_up))

NewPorts(internal_ports, existing_port_ids) ==
    SelectSeq(internal_ports,
              LAMBDA p : /\ p.id \in CurrentPortIds(internal_ports)
                         /\ p.id \notin existing_port_ids)

\* old_ports computed from the ids the descriptor lists, whatever their
\* admin state
OldPortsUnlisted(ri_internal_ports, internal_ports) ==
    SelectSeq(ri_internal_ports, LAMBDA p : p.id \notin SeqIds(internal_ports))

OldPorts(ri_internal_ports, internal_ports) ==
    SelectSeq(ri_internal_ports,
              LAMBDA p : p.id \notin CurrentPortIds(internal_ports))

\* line 294
internal_cidrs_of(ri_internal_ports) ==
    [i \in 1..Len(ri_internal_ports) |-> ri_internal_ports[i].ip_cidr]

\* line 306 keeping the gateway the RouterInfo holds when it holds one
GatewayPortHeld(ex_gw_port, ri_ex_gw_port) ==
    IF ex_gw_port # Null /\ ri_ex_gw_port # Null THEN ri_ex_gw_port
    ELSE IF ex_gw_port # Null /\ ~set_subnet_info_raises(ex_gw_port)
    THEN set_subnet_info(ex_gw_port)
    ELSE ex_gw_port

\* the dict ex_gw_port after lines 296-297: _set_subnet_info(ex_gw_port)
\* stores ip_cidr in the dict that line 306 keeps
GatewayPortStored(ex_gw_port, ri_ex_gw_port) ==
    IF GatewayAdded(ex_gw_port, ri_ex_gw_port)
       /\ ~set_subnet_info_raises(ex_gw_port)
    THEN set_subnet_info(ex_gw_port)
    ELSE ex_gw_port

\* lines 294-301
process_router_gateway(m, rid, ex_gw_port, ri_ex_gw_port) ==
    IF m.exc THEN m
    ELSE IF GatewayAdded(ex_gw_port, ri_ex_gw_port)
    THEN IF set_subnet_info_raises(ex_gw_port) THEN Raise(m)
         ELSE external_gateway_added(
                  m, rid, set_subnet_info(ex_gw_port),
                  internal_cidrs_of(m.info[rid].internal_ports))
    ELSE IF GatewayRemoved(ex_gw_port, ri_ex_gw_port)
    THEN external_gateway_removed(
             m, rid, ri_ex_gw_port,
             internal_cidrs_of(m.info[rid].internal_ports))
    ELSE m

\* lines 303-304
process_router_fips(m, rid, ex_gw_port, ri_ex_gw_port, gw_stored) ==
    IF ri_ex_gw_port # Null \/ ex_gw_port # Null
    THEN process_router_floating_ips(m, rid, gw_stored)
    ELSE m

\* line 306 reached whatever the steps before it did
store_ex_gw_port_always(m, rid, gw_stored) ==
    [m EXCEPT !.info[rid].ex_gw_port = gw_stored]

\* line 306
store_ex_gw_port(m, rid, gw_stored) ==
    IF m.exc THEN m ELSE [m EXCEPT !.info[rid].ex_gw_port = gw_stored]

process_router(m, rid) ==
    IF m.exc THEN m
    ELSE
    LET ri == m.info[rid]
        ex_gw_port == get_ex_gw_port(ri)
        internal_ports == ri.router.interfaces
        existing_port_ids == SeqIds(ri.internal_ports)
        new_ports == NewPorts(internal_ports, existing_port_ids)
        old_ports == OldPorts(ri.internal_ports, internal_ports)
        gw_stored == GatewayPortStored(ex_gw_port, ri.ex_gw_port)
    IN  store_ex_gw_port(
          process_router_fips(
            process_router_gateway(
              old_ports_loop(
                new_ports_loop(
                  Note(m, "process_router", rid, <<>>, <<>>),
                  rid, ex_gw_port, new_ports),
                rid, ex_gw_port, old_ports),
              rid, ex_gw_port, ri.ex_gw_port),
            rid, ex_gw_port, ri.ex_gw_port, gw_stored),
          rid, gw_stored)

(***************************************************************************)
(* Router creation and removal.                                            *)
(***************************************************************************)
create_router_namespace(m, rid) ==
    IF m.exc THEN m
    ELSE Ext(Ext(m, "ensure_namespace", rid, ns_name(m.info[rid]), <<>>,
                 NoEffect),
             "sysctl_ip_forward", rid, ns_name(m.info[rid]), <<>>, NoEffect)

spawn_metadata_proxy(m, rid) ==
    IF m.exc THEN m
    ELSE Ext(m, "proxy_enable", rid, ns_name(m.info[rid]), <<>>, NoEffect)

destroy_metadata_proxy(m, rid) ==
    IF m.exc THEN m
    ELSE Ext(m, "proxy_disable", rid, ns_name(m.info[rid]), <<>>, NoEffect)

\* self.router_info[router_id] = ri
registry_set(m, router_id, ri) ==
    [m EXCEPT !.info = (router_id :> ri) @@ @]

\* del self.router_info[router_id]
registry_del(m, router_id) ==
    IF m.exc THEN m
    ELSE [m EXCEPT !.info = [r \in DOMAIN @ \ {router_id} |-> @[r]]]

\* if self.conf.use_namespaces: self._create_router_namespace(ri)
create_namespace_if_used(m, router_id) ==
    IF conf.use_namespaces THEN create_router_namespace(m, router_id) ELSE m

router_added(m, router_id) ==
    IF m.exc THEN m
    ELSE
    spawn_metadata_proxy(
      apply(
        add_rules(
          add_rules(
            create_namespace_if_used(
              Note(registry_set(m, router_id,
                       RouterInfo(router_id, conf.use_namespaces, Null)),
                   "router_added", router_id, <<>>, <<>>),
              router_id),
            router_id, "filter", metadata_filter_rules),
          router_id, "nat", metadata_nat_rules),
        router_id),
      router_id)

StartsWith(s, prefix) ==
    Len(s) >= Len(prefix) /\ SubSeq(s, 1, Len(prefix)) = prefix

\* lines 177-186 for one device d of the namespace
destroy_device(m, rid, namespace, d) ==
    IF StartsWith(d, INTERNAL_DEV_PREFIX)
    THEN Ext(m, "unplug", rid, d, <<>>, UnplugEffect(d, namespace))
    ELSE IF StartsWith(d, EXTERNAL_DEV_PREFIX)
    THEN Ext(m, "unplug", rid, d, <<"bridge">>, UnplugEffect(d, namespace))
    ELSE m

\* get_devices lists the devices in an order the agent does not choose;
\* the model walks them in one fixed order
RECURSIVE destroy_devices(_, _, _, _)
destroy_devices(m, rid, namespace, devices) ==
    IF m.exc \/ devices = {} THEN m
    ELSE destroy_devices(
             destroy_device(m, rid, namespace, CHOOSE x \in devices : TRUE),
             rid, namespace, devices \ {CHOOSE x \in devices : TRUE})

\* _router_removed without its last line, the namespace teardown
destroy_router_namespace_skipped(m, rid, namespace) == m

destroy_router_namespace(m, rid, namespace) ==
    IF m.exc THEN m
    ELSE destroy_devices(m, rid, namespace, HostDevices(m.host, namespace))

\* _router_removed without "del self.router_info[router_id]"
router_removed_keeping_entry(m, router_id) ==
    IF m.exc THEN m
    ELSE
    destroy_router_namespace(
      destroy_metadata_proxy(
        apply(
          remove_rules(
            remove_rules(
              Note(m, "router_removed", router_id, <<>>, <<>>),
              router_id, "filter", metadata_filter_rules),
            router_id, "nat", metadata_nat_rules),
          router_id),
        router_id),
      router_id, ns_name(m.info[router_id]))

router_removed(m, router_id) ==
    IF m.exc THEN m
    ELSE
    destroy_router_namespace(
      registry_del(
        destroy_metadata_proxy(
          apply(
            remove_rules(
              remove_rules(
                Note(m, "router_removed", router_id, <<>>, <<>>),
                router_id, "filter", metadata_filter_rules),
              router_id, "nat", metadata_nat_rules),
            router_id),
          router_id),
        router_id),
      router_id, ns_name(m.info[router_id]))

(***************************************************************************)
(* _process_routers: the bridge check, the external network id, and the    *)
(* body of the loop over the routers.                                      *)
(***************************************************************************)
\* lines 553-557: the early return
BridgeMissing(bridge_exists) ==
    conf.external_network_bridge # "" /\ ~bridge_exists

\* _fetch_external_net_id: the id, or "" when it raises.  rpc is what the
\* controller answers: an id, "TooManyExternalNetworks" or "RemoteError".
RpcAnswers == {ExtNet, "TooManyExternalNetworks", "RemoteError"}

\* _fetch_external_net_id without its except clause for
\* TooManyExternalNetworks: the answer is taken for an id
fetch_external_net_id_unchecked(rpc) ==
    IF conf.gateway_external_network_id # ""
    THEN [id |-> conf.gateway_external_network_id, error |-> ""]
    ELSE IF rpc = "RemoteError"
         THEN [id |-> "", error |-> "RemoteError"]
    ELSE [id |-> rpc, error |-> ""]

fetch_external_net_id(rpc) ==
    IF conf.gateway_external_network_id # ""
    THEN [id |-> conf.gateway_external_network_id, error |-> ""]
    ELSE IF rpc = "TooManyExternalNetworks"
         THEN [id |-> "", error |-> "gateway_external_network_id must be configured"]
    ELSE IF rpc = "RemoteError"
         THEN [id |-> "", error |-> "RemoteError"]
    ELSE [id |-> rpc, error |-> ""]

\* lines 562-576 with the first "continue" only
EligibleAdminOnly(r, target_ex_net_id) == r.admin_state_up

\* lines 562-576: none of the four "continue" is taken
Eligible(r, target_ex_net_id) ==
    LET ex_net_id == IF r.external_gateway_info = Null THEN ""
                     ELSE r.external_gateway_info.network_id
    IN  /\ r.admin_state_up
        /\ ~(~conf.use_namespaces /\ r.id # conf.router_id)
        /\ ~(ex_net_id = "" /\ ~conf.handle_internal_only_routers)
        /\ ~(ex_net_id # "" /\ ex_net_id # target_ex_net_id)

\* lines 578-579 without "if r['id'] not in self.router_info"
router_added_always(m, router_id) == router_added(m, router_id)

\* lines 578-579
router_added_if_new(m, router_id) ==
    IF router_id \notin DOMAIN m.info THEN router_added(m, router_id) ELSE m

\* lines 581-582: ri.router = r
set_router(m, r) ==
    IF m.exc THEN m ELSE [m EXCEPT !.info[r.id].router = r]

\* lines 561-583 for one router r of the list
process_routers_body(m, r, target_ex_net_id) ==
    IF ~Eligible(r, target_ex_net_id) THEN m
    ELSE process_router(set_router(router_added_if_new(m, r.id), r), r.id)

(***************************************************************************)
(* The threads.  The RPC dispatcher runs routers_updated and               *)
(* router_deleted, each call in a thread of its own; the periodic task     *)
(* runs _sync_routers_task.                                                *)
(***************************************************************************)
RpcThreads == {"rpc1", "rpc2"}
Threads == RpcThreads \cup {"periodic"}

EmptyRegistry == [r \in {} |-> Null]

IdleLocal ==
    [handler |-> "", n |-> 0, target |-> "", calls |-> <<>>, desc |-> Null,
     rid |-> "", exc |-> FALSE, note |-> "", rpc |-> "",
     unvisited |-> Null, done |-> {}, request |-> Null]

DefaultConf ==
    [use_namespaces |-> TRUE, router_id |-> "",
     handle_internal_only_routers |-> TRUE,
     gateway_external_network_id |-> "", external_network_bridge |-> "br-ex"]

InitOver(confs) ==
    /\ router_info = EmptyRegistry
    /\ fullsync = TRUE
    /\ sync_sem = SemaphoreInitial
    /\ conf \in confs
    /\ host = EmptyHost
    /\ pc = [t \in Threads |-> "idle"]
    /\ local = [t \in Threads |-> IdleLocal]
    /\ reconciled = {}

\* the section entered without waiting for the counter
SemAcquireNoWait(t, handler, at, arg) ==
    /\ sync_sem' = sync_sem - 1
    /\ pc' = [pc EXCEPT ![t] = at]
    /\ local' = [local EXCEPT ![t].handler = handler, ![t].rid = arg]

\* "with self.sync_sem": the thread enters when the counter is positive
SemAcquire(t, handler, at, arg) ==
    /\ sync_sem > 0
    /\ sync_sem' = sync_sem - 1
    /\ pc' = [pc EXCEPT ![t] = at]
    /\ local' = [local EXCEPT ![t].handler = handler, ![t].rid = arg]

\* the end of the with block
SemRelease(t) ==
    /\ pc[t] = "exit"
    /\ sync_sem' = sync_sem + 1
    /\ pc' = [pc EXCEPT ![t] = "idle"]
    /\ local' = [local EXCEPT ![t] = IdleLocal]
    /\ UNCHANGED <<router_info, fullsync, conf, host, reconciled>>

\* routers_updated([]): "if not routers: return"
RoutersUpdatedEmpty(t) ==
    /\ t \in RpcThreads
    /\ pc[t] = "idle"
    /\ UNCHANGED vars

\* routers_updated(routers), routers not empty: line 544
RoutersUpdated(t) ==
    /\ t \in RpcThreads
    /\ pc[t] = "idle"
    /\ SemAcquire(t, "routers_updated", "process", "")
    /\ UNCHANGED <<router_info, fullsync, conf, host, reconciled>>

\* router_deleted(router_id): line 530
RouterDeleted(t, router_id) ==
    /\ t \in RpcThreads
    /\ pc[t] = "idle"
    /\ SemAcquire(t, "router_deleted", "delete", router_id)
    /\ UNCHANGED <<router_info, fullsync, conf, host, reconciled>>

\* an except clause that leaves the flag clear
FullsyncDropped(handler) == FALSE

\* what the handler's "except Exception" does with the flag (lines 538,
\* 550, 602)
FullsyncOnException(handler) == TRUE

\* line 599 after _process_routers in every handler
FullsyncClearedOnReturn(handler, flag) == FALSE

\* what the handler does with the flag when _process_routers returns
\* (line 599)
FullsyncOnReturn(handler, flag) ==
    IF handler = "_sync_routers_task" THEN FALSE ELSE flag

\* lines 531-538, inside the section
RouterDeletedBody(t, fuel) ==
    /\ pc[t] = "delete"
    /\ LET router_id == local[t].rid
           m == IF router_id \in DOMAIN router_info
                THEN router_removed(Start(router_info, host, fuel), router_id)
                ELSE Start(router_info, host, fuel)
       IN  /\ router_info' = m.info
           /\ host' = m.host
           /\ fullsync' = IF m.exc THEN FullsyncOnException(local[t].handler)
                          ELSE fullsync
           /\ local' = [local EXCEPT ![t].calls = m.calls, ![t].exc = m.exc,
                           ![t].note = IF m.exc THEN "removal_failed"
                                       ELSE "done"]
           /\ reconciled' = reconciled \ {router_id}
    /\ pc' = [pc EXCEPT ![t] = "exit"]
    /\ UNCHANGED <<sync_sem, conf>>

\* _sync_routers_task: line 588
SyncRoutersTask(t) ==
    /\ t = "periodic"
    /\ pc[t] = "idle"
    /\ SemAcquire(t, "_sync_routers_task", "task", "")
    /\ UNCHANGED <<router_info, fullsync, conf, host, reconciled>>

\* L3PluginApi.get_routers(context, fullsync=True, router_id=None): the
\* message it sends.  None is "" for router_id and <<>> for router_ids;
\* the value of fullsync is the text of what the caller bound to it.
get_routers(fullsync_arg, router_id) ==
    [method |-> "sync_routers", fullsync |-> fullsync_arg,
     router_ids |-> IF router_id # "" THEN <<router_id>> ELSE <<>>]

\* lines 591-596: router_id is the configured id without namespaces and
\* None with them; get_routers(context, router_id) binds it to the second
\* parameter, fullsync, and leaves router_id at its default, None.
SyncRequest ==
    get_routers(IF ~conf.use_namespaces THEN conf.router_id ELSE "", "")

\* lines 590-597 without "if self.fullsync:": the task fetches at every tick
SyncFetchAlways(t, fetched) ==
    /\ pc[t] = "task"
    /\ IF fetched
       THEN /\ router_info' = EmptyRegistry
            /\ pc' = [pc EXCEPT ![t] = "process"]
            /\ local' = [local EXCEPT ![t].note = "fetched",
                                      ![t].request = SyncRequest]
            /\ reconciled' = {}
            /\ UNCHANGED fullsync
       ELSE /\ fullsync' = TRUE
            /\ pc' = [pc EXCEPT ![t] = "exit"]
            /\ local' = [local EXCEPT ![t].exc = TRUE,
                                      ![t].note = "fetch_failed",
                                      ![t].request = SyncRequest]
            /\ UNCHANGED <<router_info, reconciled>>
    /\ UNCHANGED <<sync_sem, conf, host>>

\* lines 589-597: nothing to do, or the fetch and the registry reset.
\* fetched tells whether get_routers returned.
SyncFetch(t, fetched) ==
    /\ pc[t] = "task"
    /\ IF ~fullsync
       THEN /\ pc' = [pc EXCEPT ![t] = "exit"]
            /\ local' = [local EXCEPT ![t].note = "no_fullsync"]
            /\ UNCHANGED <<router_info, fullsync, reconciled>>
       ELSE IF fetched
       THEN /\ router_info' = EmptyRegistry
            /\ pc' = [pc EXCEPT ![t] = "process"]
            /\ local' = [local EXCEPT ![t].note = "fetched",
                                      ![t].request = SyncRequest]
            /\ reconciled' = {}
            /\ UNCHANGED fullsync
       ELSE /\ fullsync' = TRUE
            /\ pc' = [pc EXCEPT ![t] = "exit"]
            /\ local' = [local EXCEPT ![t].exc = TRUE,
                                      ![t].note = "fetch_failed",
                                      ![t].request = SyncRequest]
            /\ UNCHANGED <<router_info, reconciled>>
    /\ UNCHANGED <<sync_sem, conf, host>>

\* _process_routers up to the loop (lines 553-559).  unvisited is the first
\* router of the list when the method returns before the loop.
ProcessRoutersEnter(t, bridge_exists, rpc, unvisited) ==
    /\ pc[t] = "process"
    /\ IF BridgeMissing(bridge_exists)
       THEN /\ unvisited = Null => local[t].handler = "_sync_routers_task"
            /\ fullsync' = FullsyncOnReturn(local[t].handler, fullsync)
            /\ pc' = [pc EXCEPT ![t] = "exit"]
            /\ local' = [local EXCEPT ![t].note = "bridge_missing",
                                      ![t].unvisited = unvisited]
       ELSE LET target == fetch_external_net_id(rpc)
                \* the answer, when the controller was asked at all
                asked == IF conf.gateway_external_network_id = "" THEN rpc
                         ELSE ""
            IN  /\ unvisited = Null
                /\ IF target.error # ""
                   THEN /\ fullsync' = FullsyncOnException(local[t].handler)
                        /\ pc' = [pc EXCEPT ![t] = "exit"]
                        /\ local' = [local EXCEPT ![t].exc = TRUE,
                                                  ![t].note = target.error,
                                                  ![t].rpc = asked]
                   ELSE /\ pc' = [pc EXCEPT ![t] = "loop"]
                        /\ local' = [local EXCEPT ![t].target = target.id,
                                                  ![t].rpc = asked]
                        /\ UNCHANGED fullsync
    /\ UNCHANGED <<router_info, sync_sem, conf, host, reconciled>>

\* one turn of "for r in routers" (lines 561-583)
ProcessRoutersNext(t, r, fuel) ==
    /\ pc[t] = "loop"
    /\ local[t].n < MaxBatch
    /\ LET m == process_routers_body(Start(router_info, host, fuel), r,
                                     local[t].target)
       IN  /\ router_info' = m.info
           /\ host' = m.host
           /\ fullsync' = IF m.exc THEN FullsyncOnException(local[t].handler)
                          ELSE fullsync
           /\ pc' = [pc EXCEPT ![t] = IF m.exc THEN "exit" ELSE "loop"]
           /\ local' = [local EXCEPT
                  ![t].n = @ + 1, ![t].calls = m.calls, ![t].desc = r,
                  ![t].exc = m.exc,
                  ![t].note = IF m.exc THEN "router_failed" ELSE @,
                  ![t].done =
                      IF ~m.exc /\ Eligible(r, local[t].target)
                      THEN @ \cup {r.id} ELSE @]
           /\ reconciled' =
                  IF ~Eligible(r, local[t].target) THEN reconciled
                  ELSE IF m.exc THEN reconciled \ {r.id}
                  ELSE reconciled \cup {r.id}
    /\ UNCHANGED <<sync_sem, conf>>

\* the list is exhausted: _process_routers returns (and line 599)
ProcessRoutersReturn(t) ==
    /\ pc[t] = "loop"
    /\ local[t].handler = "routers_updated" => local[t].n >= 1
    /\ fullsync' = FullsyncOnReturn(local[t].handler, fullsync)
    /\ pc' = [pc EXCEPT ![t] = "exit"]
    /\ local' = [local EXCEPT ![t].note = "done"]
    /\ UNCHANGED <<router_info, sync_sem, conf, host, reconciled>>

(***************************************************************************)
(* The specifications.  They differ in the configurations the agent starts *)
(* with and in the routers the controller describes.                       *)
(***************************************************************************)
Faults == 0..MaxFault

NextOver(routers, faults) ==
    \E t \in Threads :
        \/ RoutersUpdatedEmpty(t)
        \/ RoutersUpdated(t)
        \/ \E router_id \in RouterIds : RouterDeleted(t, router_id)
        \/ \E fuel \in faults : RouterDeletedBody(t, fuel)
        \/ SyncRoutersTask(t)
        \/ \E fetched \in BOOLEAN : SyncFetch(t, fetched)
        \/ \E bridge_exists \in BOOLEAN, rpc \in RpcAnswers,
              unvisited \in routers \cup {Null} :
               ProcessRoutersEnter(t, bridge_exists, rpc, unvisited)
        \/ \E r \in routers, fuel \in faults : ProcessRoutersNext(t, r, fuel)
        \/ ProcessRoutersReturn(t)
        \/ SemRelease(t)

\* The agent with two routers: r1 with or without a gateway, r2 without;
\* any external call may fail.
Confs ==
    {DefaultConf,
     [DefaultConf EXCEPT !.gateway_external_network_id = ExtNet]}

Routers ==
    RoutersOver({"r1"}, BOOLEAN, {Null, G1}, {<<>>}, {<<>>})
    \cup RoutersOver({"r2"}, BOOLEAN, {Null}, {<<>>}, {<<>>})

Init == InitOver(Confs)

Next == NextOver(Routers, Faults)

Spec == Init /\ [][Next]_vars

\* One router whose internal ports change; no external call fails, and
\* one port has no fixed IP.
NoFaults == {0}

PortLists ==
    {<<>>, <<P1>>, <<P2>>, <<P1, P2>>, <<P1down, P2>>, <<P1, P2down>>,
     <<P1, P2noip>>}

PortRouters == RoutersOver({"r1"}, {TRUE}, {Null, G1}, PortLists, {<<>>})

NextPorts == NextOver(PortRouters, NoFaults)

SpecPorts == InitOver({DefaultConf}) /\ [][NextPorts]_vars

\* One router with a gateway whose floating IPs change; no external call
\* fails.
FipLists ==
    {<<>>, <<F1a>>, <<F1b>>, <<F1a, F2a>>, <<F1b, F2b>>, <<F1free, F2a>>}

FipRouters == RoutersOver({"r1"}, {TRUE}, {G1}, {<<>>}, FipLists)

NextFips == NextOver(FipRouters, NoFaults)

SpecFips == InitOver({DefaultConf}) /\ [][NextFips]_vars

\* Two routers with no gateway, a gateway on the agent's external network
\* or one on another network, under each configuration that switches a
\* filter of _process_routers on; no external call fails.
FilterConfs ==
    {[DefaultConf EXCEPT !.use_namespaces = FALSE, !.router_id = "r1"],
     [DefaultConf EXCEPT !.handle_internal_only_routers = FALSE],
     DefaultConf}

FilterRouters ==
    RoutersOver({"r1"}, BOOLEAN, {Null, G1, G3}, {<<>>}, {<<>>})
    \cup RoutersOver({"r2"}, BOOLEAN, {Null, G1}, {<<>>}, {<<>>})

SpecFilters ==
    InitOver(FilterConfs) /\ [][NextOver(FilterRouters, NoFaults)]_vars

\* One router whose gateway comes and goes while it has floating IPs; no
\* external call fails.
FipGwRouters ==
    RoutersOver({"r1"}, {TRUE}, {Null, G1}, {<<>>},
                {<<>>, <<F1a>>, <<F1a, F2a>>})

SpecFipsGw ==
    InitOver({DefaultConf}) /\ [][NextOver(FipGwRouters, NoFaults)]_vars

\* One router whose new ports have no, one or two fixed IPs; no external
\* call fails.
SubnetRouters ==
    RoutersOver({"r1"}, {TRUE}, {Null, G1},
                {<<>>, <<P1>>, <<P2twoips>>, <<P2twoips, P1noip>>,
                 <<P1, P2noip>>},
                {<<>>})

SpecSubnets ==
    InitOver({DefaultConf}) /\ [][NextOver(SubnetRouters, NoFaults)]_vars

\* One router whose gateway and internal port come and go, while any one
\* of the first MaxCallFault external calls of a handler may fail.
CallFaults == 0..MaxCallFault

FaultRouters ==
    RoutersOver({"r1"}, {TRUE}, {Null, G1}, {<<>>, <<P1>>}, {<<>>})

SpecFaults ==
    InitOver({DefaultConf}) /\ [][NextOver(FaultRouters, CallFaults)]_vars

\* One router whose gateway is absent, G1 or G2; no external call fails.
SpecGateways ==
    InitOver({DefaultConf})
    /\ [][NextOver(RoutersOver({"r1"}, {TRUE}, {Null, G1, G2}, {<<>>},
                               {<<>>}),
                   NoFaults)]_vars

\* The agent once the controller and the host answer: the fetch returns,
\* the controller names the external network and no external call fails.
\* The router has no port, one port, or a port without a fixed IP.
LiveRouters ==
    RoutersOver({"r1"}, {TRUE}, {Null}, {<<>>, <<P1>>, <<P1, P2noip>>},
                {<<>>})

NextLive ==
    \E t \in Threads :
        \/ RoutersUpdatedEmpty(t)
        \/ RoutersUpdated(t)
        \/ \E router_id \in RouterIds : RouterDeleted(t, router_id)
        \/ \E fuel \in NoFaults : RouterDeletedBody(t, fuel)
        \/ SyncRoutersTask(t)
        \/ \E fetched \in {TRUE} : SyncFetch(t, fetched)
        \/ \E bridge_exists \in BOOLEAN, rpc \in {ExtNet},
              unvisited \in LiveRouters \cup {Null} :
               ProcessRoutersEnter(t, bridge_exists, rpc, unvisited)
        \/ \E r \in LiveRouters, fuel \in NoFaults :
               ProcessRoutersNext(t, r, fuel)
        \/ ProcessRoutersReturn(t)
        \/ SemRelease(t)

\* The periodic task is started again after every interval and the
\* semaphore serves its waiters in turn, so a tick that finds the section
\* free again and again enters it.  A handler's body has no loop but the
\* one over the routers of its batch and its external calls return, so a
\* thread in the section reaches the end of its with block, and leaves it.
LiveFairness ==
    /\ SF_vars(SyncRoutersTask("periodic"))
    /\ \A t \in Threads : []<>(pc[t] \in {"idle", "exit"})
    /\ \A t \in Threads : WF_vars(SemRelease(t))

SpecLive == InitOver({DefaultConf}) /\ [][NextLive]_vars /\ LiveFairness

(***************************************************************************)
(* The properties.                                                         *)
(***************************************************************************)
InSection(t) == pc[t] # "idle"

Holders == {t \in Threads : InSection(t)}

\* the calls of a step that reach the host or the firewall: the log without
\* the entries that only mark the entry of a method
MethodMarks ==
    {"process_router", "router_added", "router_removed",
     "internal_network_added", "internal_network_removed",
     "external_gateway_added", "external_gateway_removed",
     "floating_ip_added", "floating_ip_removed",
     "process_router_floating_ips"}

IssuedCalls(calls) == SelectSeq(calls, LAMBDA c : c.op \notin MethodMarks)

CountCalls(calls, op, a) ==
    Cardinality({i \in 1..Len(calls) : calls[i].op = op /\ calls[i].a = a})

CountOp(calls, op) ==
    Cardinality({i \in 1..Len(calls) : calls[i].op = op})

\* thread t has just run one turn of the loop of _process_routers
LoopStep(t) ==
    /\ pc[t] = "loop"
    /\ pc'[t] \in {"loop", "exit"}
    /\ local'[t].n = local[t].n + 1

\* C1: routers_updated with a non-empty list, router_deleted and the
\* periodic task never overlap: at most one thread is inside the section,
\* and the registry, a RouterInfo or the host changes only in a step of the
\* thread that holds the section before and after the step.
C1_AtMostOneHolder == Cardinality(Holders) <= 1

C1_ChangeInsideSection ==
    (router_info' # router_info \/ host' # host)
        => \E t \in Threads :
               /\ InSection(t) /\ pc'[t] # "idle"
               /\ \A u \in Threads \ {t} : pc[u] = "idle" /\ pc'[u] = "idle"

\* C1: in every state at most one handler is inside the section, and every
\* step that changes the registry, a RouterInfo or the host is a step of
\* the handler inside it.
C1_MutualExclusion == []C1_AtMostOneHolder /\ [][C1_ChangeInsideSection]_vars

\* a thread is between two routers of its batch, with a router registered,
\* while another handler could be delivered
C1_Witness ==
    \E t \in Threads :
        /\ pc[t] = "loop" /\ local[t].n >= 1
        /\ DOMAIN router_info # {}
        /\ sync_sem = 0

\* what a RouterInfo says of its router: the gateway it holds, its ports,
\* its floating IPs and its rules
StateView(ri) ==
    [gw |-> IF ri.ex_gw_port = Null THEN <<>> ELSE ri.ex_gw_port.id,
     ports |-> ri.internal_ports, fips |-> ri.floating_ips,
     tables |-> ri.iptables_manager]

\* C2: a routers_updated call delivers, as its first descriptor, the one
\* that was the last reconciled for its router, without error and with
\* nothing in between: the step issues no call to the host or the firewall
\* and leaves every RouterInfo and the host as they were.
C2_ReplayStep ==
    \A t \in Threads :
        (/\ LoopStep(t)
         /\ local[t].handler = "routers_updated"
         /\ local[t].n = 0
         /\ local'[t].desc.id \in reconciled
         /\ local'[t].desc.id \in DOMAIN router_info
         /\ router_info[local'[t].desc.id].router = local'[t].desc)
        => /\ IssuedCalls(local'[t].calls) = <<>>
           /\ ~local'[t].exc
           /\ host' = host
           /\ DOMAIN router_info' = DOMAIN router_info
           /\ \A id \in DOMAIN router_info :
                  StateView(router_info'[id]) = StateView(router_info[id])

\* C2: every step that replays the last reconciled descriptor issues no
\* call and changes no RouterInfo.
C2_ReplayIssuesNothing == [][C2_ReplayStep]_vars

\* C3: a turn of the loop that reconciles a router without error, with E
\* the port ids the RouterInfo held and C the ids of the descriptor's
\* admin-up ports: the RouterInfo then holds exactly C,
\* internal_network_added ran once for each id of C \ E and for no other,
\* internal_network_removed once for each id of E \ C and for no other.
C3_PortDiffStep ==
    \A t \in Threads :
        (/\ LoopStep(t)
         /\ ~local'[t].exc
         /\ Eligible(local'[t].desc, local[t].target))
        => LET r == local'[t].desc
               calls == local'[t].calls
               E == IF r.id \in DOMAIN router_info
                    THEN SeqIds(router_info[r.id].internal_ports) ELSE {}
               C == CurrentPortIds(r.interfaces)
               named == {calls[i].a : i \in {j \in 1..Len(calls) :
                            calls[j].op \in {"internal_network_added",
                                             "internal_network_removed"}}}
           IN  /\ SeqIds(router_info'[r.id].internal_ports) = C
               /\ \A id \in E \cup C \cup named :
                    /\ CountCalls(calls, "internal_network_added", id)
                           = IF id \in C \ E THEN 1 ELSE 0
                    /\ CountCalls(calls, "internal_network_removed", id)
                           = IF id \in E \ C THEN 1 ELSE 0

\* C3: every reconciliation without error leaves the port ids C, having
\* added exactly C \ E and removed exactly E \ C, each once.
C3_PortDiff == [][C3_PortDiffStep]_vars

\* one reconciliation has both added a port and removed another
C3_Witness ==
    \E t \in Threads :
        /\ pc[t] \in {"loop", "exit"} /\ ~local[t].exc
        /\ CountOp(local[t].calls, "internal_network_added") >= 1
        /\ CountOp(local[t].calls, "internal_network_removed") >= 1

\* C4: a turn of the loop that reconciles a router without error: for every
\* floating IP the RouterInfo held with a fixed address A that the
\* descriptor lists, under the same id, with another fixed address B, the
\* step ran floating_ip_removed(F, A), later floating_ip_added(F, B), and
\* the RouterInfo then holds F with B.
C4_RemapStep ==
    \A t \in Threads :
        (/\ LoopStep(t)
         /\ ~local'[t].exc
         /\ Eligible(local'[t].desc, local[t].target)
         /\ local'[t].desc.id \in DOMAIN router_info)
        => LET r == local'[t].desc
               calls == local'[t].calls
               held == router_info[r.id].floating_ips
               listed == r.floatingips
               after == router_info'[r.id].floating_ips
           IN  \A i \in 1..Len(held), j \in 1..Len(listed) :
                 (/\ held[i].id = listed[j].id
                  /\ held[i].fixed_ip_address # ""
                  /\ listed[j].fixed_ip_address # ""
                  /\ held[i].fixed_ip_address # listed[j].fixed_ip_address)
                 => /\ \E x, y \in 1..Len(calls) :
                         /\ x < y
                         /\ calls[x].op = "floating_ip_removed"
                         /\ calls[x].a = <<held[i].floating_ip_address>>
                         /\ calls[x].b = <<held[i].fixed_ip_address>>
                         /\ calls[y].op = "floating_ip_added"
                         /\ calls[y].a = <<listed[j].floating_ip_address>>
                         /\ calls[y].b = <<listed[j].fixed_ip_address>>
                    /\ \E k \in 1..Len(after) : after[k] = listed[j]

\* C4: every reconciliation without error remaps each floating IP whose
\* fixed address changed: removed with the old, then added with the new.
C4_RemapEach == [][C4_RemapStep]_vars

\* C5: a turn of the loop that reconciles a router.  Without a gateway held
\* and with gateway G in the descriptor, a step without error ran
\* external_gateway_added once, for G; with a gateway held and one in the
\* descriptor it ran no gateway method; with gateway G held and none in the
\* descriptor, a step without error ran external_gateway_removed once, for
\* G.
C5_GatewayStep ==
    \A t \in Threads :
        (LoopStep(t) /\ Eligible(local'[t].desc, local[t].target))
        => LET r == local'[t].desc
               calls == local'[t].calls
               ok == ~local'[t].exc
               held == IF r.id \in DOMAIN router_info
                       THEN router_info[r.id].ex_gw_port ELSE Null
               added == CountOp(calls, "external_gateway_added")
               removed == CountOp(calls, "external_gateway_removed")
           IN  /\ (held = Null /\ r.gw_port # Null /\ ok)
                    => /\ added = 1 /\ removed = 0
                       /\ CountCalls(calls, "external_gateway_added",
                                     r.gw_port.id) = 1
               /\ (held # Null /\ r.gw_port # Null)
                    => added = 0 /\ removed = 0
               /\ (held # Null /\ r.gw_port = Null /\ ok)
                    => /\ added = 0 /\ removed = 1
                       /\ CountCalls(calls, "external_gateway_removed",
                                     held.id) = 1
               /\ (held = Null /\ r.gw_port = Null)
                    => added = 0 /\ removed = 0

\* C5: every reconciliation issues the gateway calls of its transition: one
\* added, none, or one removed.
C5_GatewayTransitions == [][C5_GatewayStep]_vars

\* a reconciliation has removed the gateway the router held
C5_Witness ==
    \E t \in Threads :
        /\ pc[t] \in {"loop", "exit"} /\ ~local[t].exc
        /\ CountOp(local[t].calls, "external_gateway_removed") = 1
        /\ local[t].desc.id \in DOMAIN router_info
        /\ router_info[local[t].desc.id].ex_gw_port = Null

\* C6: when routers_updated or the periodic task has run to its end over
\* a list of one router, whose descriptor has admin_state_up false, the
\* router is not in the registry.
C6_NoAdminDownRegistered ==
    \A t \in Threads :
        (/\ pc[t] = "exit"
         /\ local[t].n = 1
         /\ local[t].handler \in {"routers_updated", "_sync_routers_task"}
         /\ local[t].desc # Null
         /\ ~local[t].desc.admin_state_up)
        => local[t].desc.id \notin DOMAIN router_info

\* C7: a turn of the loop of routers_updated raises: fullsync is set, the
\* handler goes to its end, where it only releases the section, and every
\* other router keeps its RouterInfo and its devices.
C7_RaiseStep ==
    \A t \in Threads :
        (/\ LoopStep(t)
         /\ local[t].handler = "routers_updated"
         /\ local'[t].exc)
        => /\ fullsync'
           /\ pc'[t] = "exit"
           /\ \A id \in DOMAIN router_info \ {local'[t].desc.id} :
                  /\ id \in DOMAIN router_info'
                  /\ router_info'[id] = router_info[id]
           /\ \A d \in host.devices :
                  d.ns # NS_PREFIX \o <<local'[t].desc.id>>
                      => d \in host'.devices

C7_AtEndStep ==
    \A t \in Threads :
        pc[t] = "exit"
        => /\ pc'[t] \in {"exit", "idle"}
           /\ router_info' = router_info
           /\ host' = host
           /\ fullsync' = fullsync
           /\ pc'[t] = "idle" => sync_sem' = sync_sem + 1

\* C7: every raising turn of routers_updated sets fullsync and ends the
\* handler, which then changes nothing more; the other routers keep what
\* they had.
C7_BatchStopsAtException == [][C7_RaiseStep /\ C7_AtEndStep]_vars

\* the second router of a batch has raised, and the first one is registered
C7_Witness ==
    \E t \in Threads :
        /\ pc[t] = "exit" /\ local[t].handler = "routers_updated"
        /\ local[t].exc /\ local[t].n = 2 /\ fullsync
        /\ \E id \in local[t].done :
               id # local[t].desc.id /\ id \in DOMAIN router_info

\* C8: the periodic task, having found fullsync set, is at its end with
\* fullsync clear: it has not raised, and every router of the list that
\* passes the eligibility filter is in the registry.
C8_ClearedOnlyOnSuccess ==
    \A t \in Threads :
        (/\ pc[t] = "exit"
         /\ local[t].handler = "_sync_routers_task"
         /\ local[t].note # "no_fullsync"
         /\ ~fullsync)
        => /\ ~local[t].exc
           /\ local[t].done \subseteq DOMAIN router_info
           /\ (local[t].unvisited # Null
               /\ Eligible(local[t].unvisited, local[t].target))
                  => local[t].unvisited.id \in DOMAIN router_info

\* C9: the periodic task is at its end and the controller has answered
\* TooManyExternalNetworks: no static id is configured, the task has raised
\* the error that asks for gateway_external_network_id, and fullsync is
\* set.  A task that finds fullsync set does not end without asking the
\* controller for the routers, and the answer TooManyExternalNetworks ends
\* it with the error.
C9_AtEnd ==
    \A t \in Threads :
        (/\ pc[t] = "exit"
         /\ local[t].handler = "_sync_routers_task"
         /\ local[t].rpc = "TooManyExternalNetworks")
        => /\ fullsync
           /\ local[t].exc
           /\ local[t].note = "gateway_external_network_id must be configured"
           /\ conf.gateway_external_network_id = ""

C9_RetryStep ==
    \A t \in Threads :
        /\ (pc[t] = "task" /\ fullsync /\ pc'[t] = "exit")
               => local'[t].note = "fetch_failed" /\ fullsync'
        /\ (pc[t] = "process" /\ local'[t].rpc = "TooManyExternalNetworks")
               => pc'[t] = "exit" /\ local'[t].exc /\ fullsync'

\* C9: a periodic task that got TooManyExternalNetworks ends raised, with
\* the configuration error, and with fullsync set; a task that finds
\* fullsync set always tries again.
C9_TooManyExternalNetworks == []C9_AtEnd /\ [][C9_RetryStep]_vars

\* the periodic task has ended on the answer TooManyExternalNetworks
C9_Witness ==
    \E t \in Threads :
        /\ pc[t] = "exit" /\ local[t].handler = "_sync_routers_task"
        /\ local[t].rpc = "TooManyExternalNetworks"
        /\ fullsync

\* C10: router_deleted for an id that is not in the registry issues no call
\* and leaves the registry, the RouterInfos, the host and fullsync as they
\* were; a router_deleted that does not raise leaves its id out of the
\* registry, so that a second delivery is the first case.
C10_DeleteStep ==
    \A t \in Threads :
        (pc[t] = "delete" /\ pc'[t] = "exit")
        => /\ local[t].rid \notin DOMAIN router_info
                => /\ local'[t].calls = <<>>
                   /\ ~local'[t].exc
                   /\ router_info' = router_info
                   /\ host' = host
                   /\ fullsync' = fullsync
           /\ ~local'[t].exc => local[t].rid \notin DOMAIN router_info'

\* C10: every router_deleted of an unknown id changes nothing and issues
\* nothing, and every router_deleted that does not raise leaves its id
\* unknown.
C10_DeleteUnknown == [][C10_DeleteStep]_vars

\* router_deleted has ended for an id the registry does not hold, having
\* issued nothing, while another router is registered and fullsync is clear
C10_Witness ==
    \E t \in Threads :
        /\ pc[t] = "exit" /\ local[t].handler = "router_deleted"
        /\ local[t].calls = <<>> /\ ~local[t].exc
        /\ local[t].rid \notin DOMAIN router_info
        /\ DOMAIN router_info # {}
        /\ ~fullsync

OpsOf(calls) == [i \in 1..Len(calls) |-> calls[i].op]

\* what _router_removed issues for a router whose namespace holds nd devices
RemovalOps(nd) ==
    <<"remove_rule", "remove_rule", "apply", "proxy_disable">>
    \o [i \in 1..nd |-> "unplug"]

C11_RemovalStep ==
    \A t \in Threads :
        (/\ pc[t] = "delete" /\ pc'[t] = "exit"
         /\ local[t].rid \in DOMAIN router_info)
        => LET rid == local[t].rid
               issued == IssuedCalls(local'[t].calls)
               ops == OpsOf(issued)
               ns == ns_name(router_info[rid])
               full == RemovalOps(Cardinality(HostDevices(host, ns)))
           IN  /\ local'[t].calls[1].op = "router_removed"
               /\ sync_sem' = sync_sem
               /\ IF local'[t].exc
                  THEN /\ fullsync'
                       /\ ops # <<>>
                       /\ Len(ops) <= Len(full)
                       /\ ops = SubSeq(full, 1, Len(ops))
                       /\ ~issued[Len(issued)].ok
                  ELSE /\ ops = full
                       /\ issued[1].b = metadata_filter_rules[1]
                       /\ issued[2].b = metadata_nat_rules[1]
                       /\ \A i \in 1..Len(issued) : issued[i].ok
                       /\ rid \notin DOMAIN router_info'
                       /\ HostDevices(host', ns) = {}
                       /\ fullsync' = fullsync

\* C11: router_deleted for a registered id runs the removal in the order
\* of the code: metadata rules removed, apply, metadata proxy disabled,
\* entry deleted, the devices of the namespace unplugged.  When a step of
\* it raises, nothing follows the failed call, the handler goes to its end
\* and fullsync is set.
C11_RemovalRuns == [][C11_RemovalStep]_vars

\* router_deleted has removed a router whose namespace held a device
C11_Witness ==
    \E t \in Threads :
        /\ pc[t] = "exit" /\ local[t].handler = "router_deleted"
        /\ ~local[t].exc
        /\ CountOp(local[t].calls, "unplug") >= 1
        /\ CountOp(local[t].calls, "proxy_disable") = 1
        /\ local[t].rid \notin DOMAIN router_info

\* the rule was added to the table and an apply that succeeded came after
AddedAndApplied(calls, table, rule) ==
    \E i, j \in 1..Len(calls) :
        /\ i < j
        /\ calls[i].op = "add_rule" /\ calls[i].a = <<table>>
        /\ calls[i].b = rule
        /\ calls[j].op = "apply" /\ calls[j].ok

C12_GatewayAddStep ==
    \A t \in Threads :
        (/\ LoopStep(t)
         /\ Eligible(local'[t].desc, local[t].target)
         /\ local'[t].desc.id \in DOMAIN router_info
         /\ router_info[local'[t].desc.id].ex_gw_port = Null
         /\ local'[t].desc.gw_port # Null
         /\ ~local'[t].exc)
        => LET r == local'[t].desc
               calls == local'[t].calls
               G == r.gw_port
               X == G.fixed_ips[1].ip_address
               R == G.subnet.gateway_ip
               after == router_info'[r.id]
           IN  /\ \A i \in 1..Len(after.internal_ports) :
                     LET rule == internal_network_nat_rules(
                                     X, after.internal_ports[i].ip_cidr)[1]
                     IN  /\ AddedAndApplied(calls, "nat", rule)
                         /\ rule \in after.iptables_manager.nat
               /\ R # ""
                    => \E i \in 1..Len(calls) :
                           /\ calls[i].op = "route_add_default"
                           /\ calls[i].a = ns_name(after)
                           /\ calls[i].b = <<R>>

\* C12: a router holds internal ports and no gateway; a reconciliation
\* that adds gateway G with address X and subnet gateway-ip R adds, for
\* each port the router holds afterwards, the SNAT rule from the port's
\* CIDR to source X to the nat table and applies it, and runs 'route add
\* default gw R' in the router's namespace.
C12_GatewayAddInstallsSnatAndRoute == [][C12_GatewayAddStep]_vars

\* router r1 held P1 and no gateway; the reconciliation added G1 without
\* touching the port, and the SNAT rule of P1 is in the nat table
C12_Witness ==
    \E t \in Threads :
        /\ pc[t] \in {"loop", "exit"} /\ ~local[t].exc
        /\ local[t].n >= 1
        /\ CountOp(local[t].calls, "external_gateway_added") = 1
        /\ local[t].desc.gw_port = G1
        /\ CountOp(local[t].calls, "internal_network_added") = 0
        /\ CountOp(local[t].calls, "route_add_default") = 1
        /\ "r1" \in DOMAIN router_info
        /\ SeqIds(router_info["r1"].internal_ports) = {P1.id}
        /\ <<"snat", "-s", "10.0.0.1", "24", "-j SNAT --to-source",
             "203.0.113.5">> \in router_info["r1"].iptables_manager.nat

\* C13: the request the periodic task sends to the controller: without
\* namespaces its router-id filter is the configured router_id and its
\* fullsync argument is true; with namespaces it has no router-id filter.
C13_FullSyncRequest ==
    \A t \in Threads :
        local[t].request # Null
        => IF conf.use_namespaces
           THEN local[t].request.router_ids = <<>>
           ELSE /\ local[t].request.router_ids = <<conf.router_id>>
                /\ local[t].request.fullsync = "True"

C14_IneligibleStep ==
    \A t \in Threads :
        (/\ LoopStep(t)
         /\ local'[t].desc.id \in DOMAIN router_info
         /\ ~Eligible(local'[t].desc, local[t].target))
        => /\ local'[t].desc.id \notin DOMAIN router_info'
           /\ CountOp(local'[t].calls, "router_removed") = 1

\* C14: a turn of the loop of _process_routers over a router that is in
\* the registry and fails a filter (admin down, no gateway while
\* handle_internal_only_routers is off, gateway on another network than
\* the agent's) tears the router down and takes it out of the registry.
C14_IneligibleTornDown == [][C14_IneligibleStep]_vars

\* the four filters, as the contract lists them
FailsFilter(r, target_ex_net_id) ==
    \/ ~r.admin_state_up
    \/ ~conf.use_namespaces /\ r.id # conf.router_id
    \/ r.external_gateway_info = Null /\ ~conf.handle_internal_only_routers
    \/ /\ r.external_gateway_info # Null
       /\ r.external_gateway_info.network_id # target_ex_net_id

C15_SkipStep ==
    \A t \in Threads :
        (/\ LoopStep(t)
         /\ local'[t].desc.id \notin DOMAIN router_info
         /\ FailsFilter(local'[t].desc, local[t].target))
        => /\ local'[t].calls = <<>>
           /\ router_info' = router_info
           /\ host' = host
           /\ fullsync' = fullsync
           /\ ~local'[t].exc
           /\ pc'[t] = "loop"

\* C15: a turn of the loop of _process_routers over a router that is not
\* in the registry and fails a filter (admin down; no namespaces and
\* another id than the configured one; no gateway while
\* handle_internal_only_routers is off; gateway on another network than
\* the resolved one) issues no call, leaves the registry and the host as
\* they were, and the loop goes on to the next router.
C15_IneligibleSkipped == [][C15_SkipStep]_vars

\* without namespaces, the loop has just skipped r2, which is admin up and
\* not in the registry, and is ready for the next router
C15_Witness ==
    \E t \in Threads :
        /\ pc[t] = "loop" /\ local[t].n = 1
        /\ local[t].calls = <<>>
        /\ ~conf.use_namespaces
        /\ local[t].desc.id = "r2" /\ local[t].desc.admin_state_up
        /\ "r2" \notin DOMAIN router_info

\* the ids of the floating IPs of a descriptor that have a port
AssociatedIds(floatingips) ==
    SeqIds(SelectSeq(floatingips, LAMBDA f : f.port_id # ""))

C16_FipDiffStep ==
    \A t \in Threads :
        (/\ LoopStep(t)
         /\ ~local'[t].exc
         /\ Eligible(local'[t].desc, local[t].target)
         /\ local'[t].desc.id \in DOMAIN router_info
         /\ local'[t].desc.gw_port # Null)
        => LET r == local'[t].desc
               calls == local'[t].calls
               held == router_info[r.id].floating_ips
               wanted == AssociatedIds(r.floatingips)
               after == router_info'[r.id].floating_ips
           IN  /\ SeqIds(after) = wanted
               /\ \A i \in 1..Len(held) :
                     held[i].id \notin wanted
                     => CountCalls(calls, "floating_ip_removed",
                                   <<held[i].floating_ip_address>>) = 1

\* C16: after a reconciliation without error of a router with a gateway,
\* the ids of the floating IPs the RouterInfo holds are the ids of the
\* descriptor's floating IPs that have a port, and floating_ip_removed ran
\* once for every floating IP held before whose id is not among them.
C16_FipSetMatchesDescriptor == [][C16_FipDiffStep]_vars

C17_UnassociatedStep ==
    \A t \in Threads :
        (/\ LoopStep(t)
         /\ Eligible(local'[t].desc, local[t].target)
         /\ local'[t].desc.id \in DOMAIN router_info
         /\ router_info[local'[t].desc.id].ex_gw_port # Null
         /\ local'[t].desc.gw_port # Null)
        => LET r == local'[t].desc
               calls == local'[t].calls
               held == router_info[r.id].floating_ips
               listed == r.floatingips
               after == router_info'[r.id].floating_ips
           IN  \A i \in 1..Len(held), j \in 1..Len(listed) :
                 (/\ held[i].id = listed[j].id
                  /\ listed[j].port_id = ""
                  /\ held[i].id \notin AssociatedIds(listed))
                 => /\ ~local'[t].exc
                    /\ held[i].id \notin SeqIds(after)
                    /\ \E x \in 1..Len(calls) :
                          /\ calls[x].op = "addr_delete"
                          /\ calls[x].b = <<held[i].floating_ip_address, "32">>
                    /\ \A x \in 1..3 :
                          floating_forward_rules(
                              held[i].floating_ip_address,
                              held[i].fixed_ip_address)[x]
                          \notin router_info'[r.id].iptables_manager.nat

\* C17: a floating IP the RouterInfo holds, listed in the new descriptor
\* with port_id null, is removed by the reconciliation: its address is
\* deleted from the gateway device, its forwarding rules leave the nat
\* table, it is dropped from the RouterInfo, and no exception is raised.
C17_UnassociatedRemoved == [][C17_UnassociatedStep]_vars

C18_FipReconcilerStep ==
    \A t \in Threads :
        (/\ LoopStep(t)
         /\ ~local'[t].exc
         /\ Eligible(local'[t].desc, local[t].target))
        => LET r == local'[t].desc
               calls == local'[t].calls
               known == r.id \in DOMAIN router_info
               held_gw == IF known THEN router_info[r.id].ex_gw_port
                          ELSE Null
               held == IF known THEN router_info[r.id].floating_ips
                       ELSE <<>>
               nat == router_info'[r.id].iptables_manager.nat
           IN  /\ CountOp(calls, "process_router_floating_ips")
                  = IF held_gw # Null \/ r.gw_port # Null THEN 1 ELSE 0
               /\ \A i, j \in 1..Len(calls) :
                     (/\ calls[i].op = "process_router_floating_ips"
                      /\ calls[j].op \in {"external_gateway_added",
                                          "external_gateway_removed"})
                     => j < i
               /\ (held_gw # Null /\ r.gw_port = Null /\ r.floatingips = <<>>)
                    => /\ router_info'[r.id].floating_ips = <<>>
                       /\ \A i \in 1..Len(held) :
                             /\ CountCalls(calls, "floating_ip_removed",
                                           <<held[i].floating_ip_address>>) = 1
                             /\ \A x \in 1..3 :
                                   floating_forward_rules(
                                       held[i].floating_ip_address,
                                       held[i].fixed_ip_address)[x] \notin nat

\* C18: process_router runs process_router_floating_ips exactly when the
\* RouterInfo's gateway or the descriptor's gateway is present, after the
\* gateway method of the transition; when the descriptor has no gateway
\* and no floating IP and the RouterInfo held a gateway, every floating IP
\* held is removed: floating_ip_removed ran for it, its rules are out of
\* the nat table and the RouterInfo holds no floating IP.
C18_FipsCleanedAfterGateway == [][C18_FipReconcilerStep]_vars

\* the ports of descriptor r that are admin down and held by the RouterInfo
HeldDownPorts(r) ==
    IF r.id \notin DOMAIN router_info THEN {}
    ELSE {i \in 1..Len(r.interfaces) :
            /\ ~r.interfaces[i].admin_state_up
            /\ r.interfaces[i].id \in SeqIds(router_info[r.id].internal_ports)}

\* descriptor r without those ports
WithoutHeldDownPorts(r) ==
    [r EXCEPT !.interfaces =
        SelectSeq(@, LAMBDA p :
            \/ p.admin_state_up
            \/ p.id \notin SeqIds(router_info[r.id].internal_ports))]

C19_AdminDownStep ==
    \A t \in Threads :
        (/\ LoopStep(t)
         /\ Eligible(local'[t].desc, local[t].target)
         /\ HeldDownPorts(local'[t].desc) # {})
        => LET r == local'[t].desc
               absent == process_routers_body(
                             Start(router_info, host, 0),
                             WithoutHeldDownPorts(r), local[t].target)
           IN  /\ local'[t].calls = absent.calls
               /\ local'[t].exc = absent.exc
               /\ host' = absent.host
               /\ StateView(router_info'[r.id]) = StateView(absent.info[r.id])
               /\ ~local'[t].exc
                    => \A i \in HeldDownPorts(r) :
                          /\ CountCalls(local'[t].calls,
                                        "internal_network_removed",
                                        r.interfaces[i].id) = 1
                          /\ r.interfaces[i].id
                               \notin SeqIds(router_info'[r.id].internal_ports)

\* C19: a reconciliation whose descriptor lists a held port with
\* admin_state_up false issues the calls, and leaves the host and the
\* RouterInfo (gateway, ports, floating IPs, rules), that the same
\* descriptor without the port gives from the same state: the port is
\* removed by internal_network_removed, once.
C19_AdminDownAsAbsent == [][C19_AdminDownStep]_vars

\* r1 held P1 and P2; the descriptor listed P2 admin down, and the
\* reconciliation removed it
C19_Witness ==
    \E t \in Threads :
        /\ pc[t] \in {"loop", "exit"} /\ ~local[t].exc
        /\ CountCalls(local[t].calls, "internal_network_removed", P2.id) = 1
        /\ local[t].desc.interfaces = <<P1, P2down>>
        /\ SeqIds(router_info["r1"].internal_ports) = {P1.id}

\* the index in new_ports of the first port without fixed IP, or 0
RECURSIVE FirstWithoutIp(_, _)
FirstWithoutIp(new_ports, i) ==
    IF i > Len(new_ports) THEN 0
    ELSE IF new_ports[i].fixed_ips = <<>> THEN i
    ELSE FirstWithoutIp(new_ports, i + 1)

C20_NewPortStep ==
    \A t \in Threads :
        (LoopStep(t) /\ Eligible(local'[t].desc, local[t].target))
        => LET r == local'[t].desc
               calls == local'[t].calls
               held_ids == IF r.id \in DOMAIN router_info
                           THEN SeqIds(router_info[r.id].internal_ports)
                           ELSE {}
               new_ports == NewPorts(r.interfaces, held_ids)
               bad == FirstWithoutIp(new_ports, 1)
               after == router_info'[r.id].internal_ports
               reached == IF bad = 0 THEN Len(new_ports) ELSE bad - 1
           IN  /\ bad > 0
                    => /\ local'[t].exc
                       /\ new_ports[bad].id \notin SeqIds(after)
                       /\ CountCalls(calls, "internal_network_added",
                                     new_ports[bad].id) = 0
               /\ bad = 0 => ~local'[t].exc
               /\ \A i \in 1..reached :
                     LET p == new_ports[i]
                         cidr == <<p.fixed_ips[1].ip_address,
                                   prefixlen(p.subnet.cidr)>>
                     IN  /\ \E k \in 1..Len(after) :
                               after[k].id = p.id /\ after[k].ip_cidr = cidr
                         /\ \E x \in 1..Len(calls) :
                               /\ calls[x].op = "internal_network_added"
                               /\ calls[x].a = p.id /\ calls[x].b = cidr
                         /\ \E x \in 1..Len(calls) :
                               /\ calls[x].op = "init_l3"
                               /\ calls[x].a = get_internal_device_name(p.id)
                               /\ calls[x].b = cidr

\* C20: a new port without fixed IP makes the reconciliation raise, and
\* the port is neither appended to internal_ports nor given to
\* internal_network_added; every new port before it, and every new port
\* when none is without fixed IP, is added with the CIDR of its first
\* fixed IP, also when it has more than one, and the reconciliation goes on.
C20_SubnetInfo == [][C20_NewPortStep]_vars

\* the descriptor listed P2 with two fixed IPs, then P1 with none: P2 is
\* held with the CIDR of its first IP and the reconciliation raised at P1
C20_Witness ==
    \E t \in Threads :
        /\ pc[t] = "exit" /\ local[t].exc
        /\ CountCalls(local[t].calls, "internal_network_added", P2.id) = 1
        /\ CountCalls(local[t].calls, "internal_network_added", P1.id) = 0
        /\ local[t].desc.interfaces = <<P2twoips, P1noip>>
        /\ SeqIds(router_info["r1"].internal_ports) = {P2.id}
        /\ router_info["r1"].internal_ports[1].ip_cidr = <<"10.0.1.1", "24">>

C21_AbortStep ==
    \A t \in Threads :
        (/\ LoopStep(t)
         /\ local'[t].exc
         /\ CountOp(local'[t].calls, "process_router") = 1)
        => LET r == local'[t].desc
               calls == local'[t].calls
               last == calls[Len(calls)]
               before == IF r.id \in DOMAIN router_info
                         THEN router_info[r.id].ex_gw_port ELSE Null
           IN  /\ ~last.ok
               /\ last.op \notin {"arping", "route_add_default"}
               /\ \A i \in 1..(Len(calls) - 1) : calls[i].ok
               /\ router_info'[r.id].ex_gw_port = before
               /\ pc'[t] = "exit"

\* C21: when a step of process_router raises, the call that failed is the
\* last thing the reconciliation did (nothing is issued after it, and it
\* is not issued again), it is not the ARP or the default-route command,
\* the loop over the routers ends, and ex_gw_port of the RouterInfo is
\* what it was before.
C21_FailureAborts == [][C21_AbortStep]_vars

\* adding gateway G1 to r1 failed at init_l3 of the gateway device: r1 is
\* still without gateway baseline
C21_Witness ==
    \E t \in Threads :
        /\ pc[t] = "exit" /\ local[t].exc
        /\ CountOp(local[t].calls, "external_gateway_added") = 1
        /\ local[t].calls[Len(local[t].calls)].op = "init_l3"
        /\ local[t].desc.gw_port = G1
        /\ router_info["r1"].ex_gw_port = Null

\* the positions of the ARP and default-route commands that failed
IgnoredFailures(calls) ==
    {i \in 1..Len(calls) :
        calls[i].op \in {"arping", "route_add_default"} /\ ~calls[i].ok}

C22_NonFatalStep ==
    \A t \in Threads :
        (LoopStep(t) /\ IgnoredFailures(local'[t].calls) # {})
        => LET r == local'[t].desc
               calls == local'[t].calls
               clean == process_routers_body(Start(router_info, host, 0), r,
                                             local[t].target)
           IN  /\ ~local'[t].exc
               /\ fullsync' = fullsync
               /\ pc'[t] = "loop"
               /\ OpsOf(calls) = OpsOf(clean.calls)
               /\ router_info' = clean.info
               /\ host' = clean.host
               /\ \A i \in IgnoredFailures(calls) :
                     CountOp(calls, "external_gateway_added") = 1
                     => \E j, k \in (i + 1)..Len(calls) :
                           /\ j < k
                           /\ calls[j].op = "add_rule"
                           /\ calls[k].op = "apply" /\ calls[k].ok

\* C22: a reconciliation in which the gratuitous ARP command or the
\* default-route command failed does not raise and leaves fullsync alone;
\* it issues the calls of the reconciliation without failure, among them
\* the rule additions and the apply that follow the failed command in a
\* gateway addition, and leaves the registry and the host as that one does.
C22_ArpAndRouteNonFatal == [][C22_NonFatalStep]_vars

\* the default-route command of a gateway addition failed, and the
\* reconciliation went on to the rules and completed
C22_Witness ==
    \E t \in Threads :
        /\ pc[t] = "loop" /\ ~local[t].exc /\ local[t].n >= 1
        /\ \E i \in 1..Len(local[t].calls) :
              /\ local[t].calls[i].op = "route_add_default"
              /\ ~local[t].calls[i].ok
        /\ CountOp(local[t].calls, "external_gateway_added") = 1
        /\ LET issued == IssuedCalls(local[t].calls)
           IN  /\ issued[Len(issued)].op = "apply"
               /\ issued[Len(issued)].ok
        /\ router_info["r1"].ex_gw_port # Null

C23_EntryDeletedStep ==
    \A t \in Threads :
        (/\ pc[t] = "delete" /\ pc'[t] = "exit"
         /\ local[t].rid \in DOMAIN router_info
         /\ local[t].rid \notin DOMAIN router_info')
        => LET rid == local[t].rid
               calls == local'[t].calls
               ns == ns_name(router_info[rid])
           IN  /\ \E i \in 1..Len(calls) :
                     calls[i].op = "apply" /\ calls[i].ok
               /\ \E i \in 1..Len(calls) :
                     calls[i].op = "proxy_disable" /\ calls[i].ok
               /\ CountOp(calls, "unplug")
                  = Cardinality(HostDevices(host, ns))
               /\ \A i \in 1..Len(calls) : calls[i].ok
               /\ HostDevices(host', ns) = {}

\* C23: when the removal has deleted the registry entry, the rule removal
\* and its apply, the metadata-proxy disable and the teardown of the
\* namespace (the unplug of each of its devices) have been performed.
C23_EntryDeletedLast == [][C23_EntryDeletedStep]_vars

C24_TeardownErrorStep ==
    \A t \in Threads :
        (/\ pc[t] = "delete" /\ pc'[t] = "exit"
         /\ local[t].rid \in DOMAIN router_info
         /\ \E i \in 1..Len(local'[t].calls) : ~local'[t].calls[i].ok)
        => LET rid == local[t].rid
               ns == ns_name(router_info[rid])
           IN  /\ ~local'[t].exc
               /\ rid \notin DOMAIN router_info'
               /\ OpsOf(IssuedCalls(local'[t].calls))
                  = RemovalOps(Cardinality(HostDevices(host, ns)))

\* C24: when a teardown step of the removal (apply, metadata-proxy
\* disable, unplug of a device) fails, no exception leaves the removal:
\* the removal issues its remaining steps and deletes the registry entry.
C24_TeardownErrorsContained == [][C24_TeardownErrorStep]_vars

C25_NamespaceDestroyStep ==
    \A t \in Threads :
        (/\ pc[t] = "delete" /\ pc'[t] = "exit"
         /\ local[t].rid \in DOMAIN router_info
         /\ ~local'[t].exc)
        => LET rid == local[t].rid
               calls == local'[t].calls
               ns == ns_name(router_info[rid])
               named == {d \in HostDevices(host, ns) :
                            \/ StartsWith(d, INTERNAL_DEV_PREFIX)
                            \/ StartsWith(d, EXTERNAL_DEV_PREFIX)}
               unplugs == {i \in 1..Len(calls) : calls[i].op = "unplug"}
           IN  /\ {calls[i].a : i \in unplugs} = named
               /\ Cardinality(unplugs) = Cardinality(named)
               /\ \E k \in 1..Len(calls) :
                     /\ calls[k].op = "netns_delete"
                     /\ calls[k].a = ns
                     /\ \A i \in unplugs : i < k

\* C25: the namespace destroy of a removal without error unplugs each
\* device of the namespace whose name starts with qr- or qg-, once, and no
\* other device, and after the unplugs deletes the namespace itself.
C25_NamespaceDeletedAfterUnplugs == [][C25_NamespaceDestroyStep]_vars

\* how many times the step added the rule to the table
CountRuleAdds(calls, table, rule) ==
    Cardinality({i \in 1..Len(calls) :
                    /\ calls[i].op = "add_rule"
                    /\ calls[i].a = <<table>> /\ calls[i].b = rule})

C26_MetadataStep ==
    \A t \in Threads :
        (LoopStep(t) /\ Eligible(local'[t].desc, local[t].target))
        => LET r == local'[t].desc
               calls == local'[t].calls
               filter_adds == CountRuleAdds(calls, "filter",
                                            metadata_filter_rules[1])
               nat_adds == CountRuleAdds(calls, "nat", metadata_nat_rules[1])
               enables == CountOp(calls, "proxy_enable")
           IN  IF r.id \in DOMAIN router_info
               THEN /\ filter_adds = 0 /\ nat_adds = 0 /\ enables = 0
                    /\ CountOp(calls, "router_added") = 0
               ELSE /\ filter_adds <= 1 /\ nat_adds <= 1 /\ enables <= 1
                    /\ CountOp(calls, "router_added") = 1
                    /\ ~local'[t].exc
                         => filter_adds = 1 /\ nat_adds = 1 /\ enables = 1

\* C26: a reconciliation of a router that is in the registry adds neither
\* metadata rule and does not enable the metadata proxy; the reconciliation
\* that creates the RouterInfo adds each of the two rules once and enables
\* the proxy once.
C26_MetadataOncePerRouter == [][C26_MetadataStep]_vars

\* a router that was in the registry has been reconciled again: the step
\* added no metadata rule, and the rules of its creation are in its tables
C26_Witness ==
    \E t \in Threads :
        /\ pc[t] \in {"loop", "exit"} /\ ~local[t].exc
        /\ local[t].handler = "routers_updated"
        /\ CountOp(local[t].calls, "process_router") = 1
        /\ CountOp(local[t].calls, "router_added") = 0
        /\ CountOp(local[t].calls, "proxy_enable") = 0
        /\ local[t].desc.id \in DOMAIN router_info
        /\ metadata_nat_rules[1]
             \in router_info[local[t].desc.id].iptables_manager.nat
        /\ metadata_filter_rules[1]
             \in router_info[local[t].desc.id].iptables_manager.filter

C27_BothGatewaysStep ==
    \A t \in Threads :
        (/\ LoopStep(t)
         /\ Eligible(local'[t].desc, local[t].target)
         /\ local'[t].desc.id \in DOMAIN router_info
         /\ router_info[local'[t].desc.id].ex_gw_port # Null
         /\ local'[t].desc.gw_port # Null)
        => LET r == local'[t].desc
               calls == local'[t].calls
           IN  /\ CountOp(calls, "external_gateway_added") = 0
               /\ CountOp(calls, "external_gateway_removed") = 0
               /\ ~local'[t].exc
                    => router_info'[r.id].ex_gw_port = r.gw_port

\* C27: a reconciliation of a router that holds a gateway, with a gateway
\* in the descriptor, the same or another, runs neither
\* external_gateway_added nor external_gateway_removed; when it completes,
\* ex_gw_port of the RouterInfo is the gateway port of the descriptor.
C27_GatewayKeptOrReplaced == [][C27_BothGatewaysStep]_vars

\* r1 held G1, whose device is still plugged; the descriptor brought G2
\* and the reconciliation made G2 the baseline without a gateway method
C27_Witness ==
    \E t \in Threads :
        /\ pc[t] \in {"loop", "exit"} /\ ~local[t].exc
        /\ CountOp(local[t].calls, "process_router") = 1
        /\ CountOp(local[t].calls, "external_gateway_added") = 0
        /\ CountOp(local[t].calls, "external_gateway_removed") = 0
        /\ local[t].desc.gw_port = G2
        /\ router_info["r1"].ex_gw_port = G2
        /\ device_exists(host, get_external_device_name(G1.id),
                         ns_name(router_info["r1"]))
        /\ ~device_exists(host, get_external_device_name(G2.id),
                          ns_name(router_info["r1"]))

\* the periodic task is in a tick that found, or finds, fullsync false
IdleTick ==
    /\ pc["periodic"] \in {"task", "exit"}
    /\ ~fullsync
    /\ pc["periodic"] = "exit" => local["periodic"].note = "no_fullsync"

C28_IdleTickStep ==
    (IdleTick /\ pc'["periodic"] # pc["periodic"])
    => /\ pc["periodic"] = "task" => pc'["periodic"] = "exit"
       /\ pc["periodic"] = "exit" => pc'["periodic"] = "idle"
       /\ local'["periodic"].request = Null
       /\ local'["periodic"].calls = <<>>
       /\ ~local'["periodic"].exc
       /\ router_info' = router_info
       /\ host' = host
       /\ fullsync' = fullsync

\* C28: a tick of the periodic task that finds fullsync false goes to its
\* end and releases the section without sending a request to the
\* controller and without a call to the host or the firewall; the registry,
\* the host and fullsync are what they were.
C28_IdleTickDoesNothing == [][C28_IdleTickStep]_vars

\* the periodic task found fullsync false and is at its end, with routers
\* in the registry
C28_Witness ==
    /\ pc["periodic"] = "exit"
    /\ local["periodic"].note = "no_fullsync"
    /\ local["periodic"].request = Null
    /\ ~fullsync
    /\ router_info # EmptyRegistry

\* C29: in every state, each key of the registry maps to the RouterInfo
\* of that router id, a RouterInfo holds no two floating IPs with the same
\* id, and its ex_gw_port is empty or one gateway port.
C29_RegistryShape ==
    \A rid \in DOMAIN router_info :
        LET ri == router_info[rid]
        IN  /\ ri.router_id = rid
            /\ Cardinality(SeqIds(ri.floating_ips)) = Len(ri.floating_ips)
            /\ ri.ex_gw_port = Null \/ ri.ex_gw_port.id = G1.id

\* a reconciliation has remapped a floating IP of a router that holds two
C29_Witness ==
    \E t \in Threads :
        /\ pc[t] \in {"loop", "exit"} /\ ~local[t].exc
        /\ CountOp(local[t].calls, "floating_ip_removed") >= 1
        /\ CountOp(local[t].calls, "floating_ip_added") >= 1
        /\ "r1" \in DOMAIN router_info
        /\ Len(router_info["r1"].floating_ips) = 2

\* the rules of a nat table that exist only for a gateway: the SNAT rule
\* of an internal network and the POSTROUTING rule of the gateway device
GatewayRules(nat) == {rule \in nat : rule[1] \in {"snat", "POSTROUTING"}}

C30_NoGatewayStep ==
    \A t \in Threads :
        (/\ LoopStep(t)
         /\ Eligible(local'[t].desc, local[t].target)
         /\ ~local'[t].exc
         /\ local'[t].desc.gw_port = Null)
        => LET ri == router_info'[local'[t].desc.id]
           IN  /\ ri.ex_gw_port = Null
               /\ GatewayRules(ri.iptables_manager.nat) = {}

\* C30: after a reconciliation without error whose descriptor has no
\* gateway, the RouterInfo has no gateway and its nat table holds no SNAT
\* rule of an internal network and no POSTROUTING rule of a gateway
\* device, also when the descriptor removed a port together with the
\* gateway.
C30_NoGatewayNoSnat == [][C30_NoGatewayStep]_vars

\* the rule was removed by a call of the step between positions lo and hi
RemovedBetween(calls, rule, lo, hi) ==
    \E k \in (lo + 1)..(hi - 1) :
        /\ calls[k].op = "remove_rule"
        /\ calls[k].a = <<"nat">> /\ calls[k].b = rule

C31_SnatAddStep ==
    \A t \in Threads :
        (LoopStep(t) /\ Eligible(local'[t].desc, local[t].target))
        => LET r == local'[t].desc
               calls == local'[t].calls
               held == IF r.id \in DOMAIN router_info
                       THEN router_info[r.id].iptables_manager.nat ELSE {}
           IN  \A j \in 1..Len(calls) :
                 (/\ calls[j].op = "add_rule"
                  /\ calls[j].a = <<"nat">>
                  /\ calls[j].b[1] = "snat")
                 => /\ \A i \in 1..(j - 1) :
                          (/\ calls[i].op = "add_rule"
                           /\ calls[i].a = <<"nat">>
                           /\ calls[i].b = calls[j].b)
                          => RemovedBetween(calls, calls[j].b, i, j)
                    /\ calls[j].b \in held
                         => RemovedBetween(calls, calls[j].b, 0, j)

\* C31: a reconciliation adds the SNAT rule of an internal CIDR and a
\* gateway address to the nat table of a RouterInfo only when the rule is
\* not there: not a second time in the same reconciliation, and not when
\* an earlier reconciliation added it, unless it was removed in between.
C31_SnatAddedOnce == [][C31_SnatAddStep]_vars

C32_ClearStep ==
    (fullsync /\ ~fullsync')
    => /\ pc["periodic"] \in {"process", "loop"}
       /\ pc'["periodic"] = "exit"
       /\ local["periodic"].handler = "_sync_routers_task"
       /\ ~local'["periodic"].exc
       /\ \A t \in RpcThreads : pc'[t] = pc[t]

\* C32: fullsync is true at start, and a step takes it from true to false
\* only when the periodic task comes to the end of a tick without an
\* exception; no step of routers_updated or router_deleted clears it.
C32_FullsyncClearedByTickOnly == (fullsync = TRUE) /\ [][C32_ClearStep]_vars

\* a tick of the periodic task has completed and cleared fullsync
C32_Witness ==
    /\ ~fullsync
    /\ pc["periodic"] = "exit"
    /\ local["periodic"].note = "done"
    /\ ~local["periodic"].exc

\* C33: under the fairness of SpecLive (the tick keeps entering the
\* section, every thread in the section goes on to release it, the fetch
\* and every external call succeed), whenever fullsync is true it is
\* eventually false.
C33_FullsyncEventuallyCleared == (fullsync = TRUE) ~> (fullsync = FALSE)


\* the RouterInfo holds the metadata filter and NAT rules
MetadataRulesHeld(ri) ==
    /\ \A i \in 1..Len(metadata_filter_rules) :
           metadata_filter_rules[i] \in ri.iptables_manager.filter
    /\ \A i \in 1..Len(metadata_nat_rules) :
           metadata_nat_rules[i] \in ri.iptables_manager.nat

\* the calls of a step have call op for router r, and it succeeded
SucceededFor(calls, op, r) ==
    \E i \in 1..Len(calls) :
        calls[i].op = op /\ calls[i].rid = r /\ calls[i].ok

\* the step entered _router_added for r
CreationStarted(calls, r) ==
    \E i \in 1..Len(calls) : calls[i].op = "router_added" /\ calls[i].rid = r

\* the step ensured the namespace (when namespaces are used), applied the
\* rules and enabled the metadata proxy of r
CreationCompleted(calls, r) ==
    /\ conf.use_namespaces => SucceededFor(calls, "ensure_namespace", r)
    /\ SucceededFor(calls, "apply", r)
    /\ SucceededFor(calls, "proxy_enable", r)

\* C34: whenever no operation holds the section every registered router
\* holds its metadata rules, and a handler that reaches the end of its
\* section having entered the creation of a router either completed it
\* (namespace ensured, rules applied, proxy enabled) or does not leave the
\* router in the registry.
C34_RegisteredRoutersCreated ==
    /\ sync_sem = SemaphoreInitial
           => \A r \in DOMAIN router_info : MetadataRulesHeld(router_info[r])
    /\ \A t \in Threads :
           pc[t] = "exit"
               => \A r \in DOMAIN router_info :
                      CreationStarted(local[t].calls, r)
                          => CreationCompleted(local[t].calls, r)


\* the entries of a step's log that mark the entry of a method
MarksOf(calls) == SelectSeq(calls, LAMBDA c : c.op \in MethodMarks)

\* the step ended in a failed external call of internal_network_added for
\* port port_id of router r
BringUpFailed(calls, r, port_id) ==
    /\ calls # <<>>
    /\ ~calls[Len(calls)].ok
    /\ MarksOf(calls) # <<>>
    /\ LET last == MarksOf(calls)[Len(MarksOf(calls))]
       IN  last.op = "internal_network_added" /\ last.rid = r
           /\ last.a = port_id

\* the device of a recorded port is on the host with the port's address
BroughtUp(ri, port) ==
    /\ device_exists(host, get_internal_device_name(port.id), ns_name(ri))
    /\ port.ip_cidr
           \in HostAddrList(host, get_internal_device_name(port.id),
                            ns_name(ri))

\* C35: whenever no operation holds the section the device of every
\* recorded internal port is up with its address, and a handler that
\* reaches the end of its section after internal_network_added raised for
\* a port does not leave that port in internal_ports.
C35_RecordedPortsBroughtUp ==
    /\ sync_sem = SemaphoreInitial
           => \A r \in DOMAIN router_info :
                  \A i \in 1..Len(router_info[r].internal_ports) :
                      BroughtUp(router_info[r], router_info[r].internal_ports[i])
    /\ \A t \in Threads :
           (pc[t] = "exit" /\ local[t].exc)
               => \A r \in DOMAIN router_info :
                      \A i \in 1..Len(router_info[r].internal_ports) :
                          ~BringUpFailed(local[t].calls, r,
                               router_info[r].internal_ports[i].id)


\* the floating IP address is one the RouterInfo held before the step
HeldAddress(held, address) ==
    \E j \in 1..Len(held) : held[j].floating_ip_address = address

C36_GatewayStep ==
    \A t \in Threads :
        LoopStep(t) =>
            LET calls == local'[t].calls
                desc == local'[t].desc
                known == desc.id \in DOMAIN router_info
                held == IF known THEN router_info[desc.id].floating_ips
                        ELSE <<>>
                previous == IF known THEN router_info[desc.id].ex_gw_port
                            ELSE Null
            IN  \A i \in 1..Len(calls) :
                    /\ calls[i].op = "floating_ip_removed"
                           => previous # Null
                    /\ calls[i].op = "floating_ip_added"
                           => IF HeldAddress(held, calls[i].a[1])
                              THEN previous # Null
                              ELSE desc.gw_port # Null

\* C36: in every reconciliation, floating_ip_removed and the
\* floating_ip_added of a remapping are entered only when the RouterState
\* held a gateway before, and the floating_ip_added of a new floating IP
\* only when the descriptor has a gateway.
C36_FloatingIpGatewayNonNull == [][C36_GatewayStep]_vars


\* thread t is at the end of router_deleted, about to leave the section
DeletedReturns(t) ==
    pc[t] = "exit" /\ local[t].handler = "router_deleted"

\* C37: when router_deleted(r) returns, r is absent from the registry or
\* fullsync is true.
C37_DeletedOrFullsync ==
    \A t \in RpcThreads :
        DeletedReturns(t)
            => local[t].rid \notin DOMAIN router_info \/ fullsync

\* a router_deleted whose teardown raised returns with the router still
\* registered
C37_Witness ==
    \E t \in RpcThreads :
        /\ DeletedReturns(t)
        /\ local[t].exc
        /\ local[t].rid \in DOMAIN router_info
        /\ CountOp(local[t].calls, "router_removed") = 1


\* the qr- and qg- devices of a namespace on the host
RouterDevices(h, namespace) ==
    {d \in HostDevices(h, namespace) :
        StartsWith(d, INTERNAL_DEV_PREFIX) \/ StartsWith(d, EXTERNAL_DEV_PREFIX)}

\* the calls of a step remove the metadata rules of the router, disable
\* its metadata proxy and unplug each of the devices it had on the host
TeardownIssued(calls, ri, h) ==
    /\ \A k \in 1..Len(metadata_filter_rules) :
           \E i \in 1..Len(calls) :
               /\ calls[i].op = "remove_rule" /\ calls[i].rid = ri.router_id
               /\ calls[i].a = <<"filter">>
               /\ calls[i].b = metadata_filter_rules[k]
    /\ \A k \in 1..Len(metadata_nat_rules) :
           \E i \in 1..Len(calls) :
               /\ calls[i].op = "remove_rule" /\ calls[i].rid = ri.router_id
               /\ calls[i].a = <<"nat">>
               /\ calls[i].b = metadata_nat_rules[k]
    /\ \E i \in 1..Len(calls) :
           calls[i].op = "proxy_disable" /\ calls[i].rid = ri.router_id
    /\ \A d \in RouterDevices(h, ns_name(ri)) :
           \E i \in 1..Len(calls) :
               /\ calls[i].op = "unplug" /\ calls[i].rid = ri.router_id
               /\ calls[i].a = d

C38_LeaveStep ==
    \A r \in DOMAIN router_info \ DOMAIN router_info' :
        \E t \in Threads :
            /\ InSection(t)
            /\ TeardownIssued(local'[t].calls, router_info[r], host)

\* C38: every step that takes a router id out of the registry is a step
\* of a handler that issues the router's teardown: the removal of its
\* metadata rules, the disabling of its metadata proxy and the unplugging
\* of each qr-/qg- device of its namespace.
C38_TeardownBeforeLeaving == [][C38_LeaveStep]_vars

=============================================================================
